---- MODULE Spec2Model ----
(***************************************************************************)
(* Legal-AI-Agent: the document-analysis pipeline (read, extract, assess   *)
(* compliance, build knowledge graph, load query context), the knowledge-  *)
(* graph construction algorithm and the effective-date derivation.         *)
(*                                                                         *)
(* Text is modelled as a sequence of one-character strings, so that        *)
(* strip / replace / lower / substring behave as they do in the source.    *)
(* A calendar date is one token (its ISO form, e.g. "2024-01-01").         *)
(***************************************************************************)
EXTENDS Integers, Sequences, FiniteSets, TLC

VARIABLES
    \* KnowledgeGraphAgent instance (knowledge_graph_agent.py:23-25)
    nodes, edges, id_map,
    kgRaised,      \* exception raised by the last call / the run ("none" if none)
    kgRet,         \* value returned by the last _add_node call
    kgCall,        \* the last call made on the agent (operation and arguments)
    kgCalls,       \* number of direct calls made so far
    \* one invocation of KnowledgeGraphAgent.run
    kgPc,          \* "idle", "running", "built" (returned) or "failed" (raised)
    kgResult,      \* the analysis_result the run works on
    kgIdx,         \* index of the next work item
    kgPending,     \* calls of the current work item still to be made
    kgBuilds,      \* number of runs started on this agent instance
    kgPrevIds,     \* non-clause node ids the previous run left in the agent
    kgRebuild,     \* the current run got the result of the previous run
    \* RedisCache (utils/redis_cache.py)
    cache,         \* key -> [value, ex]
    cacheConn,     \* self.r is a connection (not None)
    cacheLast,     \* the last call made on the cache: operation, key, what it returned or raised
    cacheCalls,    \* number of calls made on the cache by other callers than the pipeline
    cacheLog,      \* the calls made on the cache, in order, each with the stage that made it
    \* one call of analyze_document_pipeline_core (backend_service.py)
    pc,              \* where the orchestrator is
    file,            \* the file the caller passed
    documentContent, \* the reader's output
    uuidCount,       \* number of document identifiers generated so far
    documentId,      \* the identifier generated by the extraction stage
    extractOutcome,  \* how the extraction model call ended
    entities,        \* the entity bundle the extraction stage went on with
    analysisResult,  \* the run's DocumentAnalysisResult
    ruleIdx,         \* compliance stage: index of the rule assessed next (0: not in the loop)
    findings,        \* compliance stage: the local findings list
    assessLog,       \* how each rule's model call ended, and what it returned
    llmCalls,        \* model calls made in this run
    ragCtx,          \* RAGAgent.document_analysis_result
    returned,        \* what the pipeline returned to its caller
    raisedToCaller,  \* an exception left analyze_document_pipeline_core
    pipeExc,         \* the exception in flight inside the try block ("none" if none)
    stageLog,        \* begin / end / fail events of the stages of this run
    ragAtStart, cacheAtStart,  \* the query context and the cache when the run began
    \* one RAGAgent instance and its caller (agents/rag_agent.py)
    ragLoads,        \* every result passed to load_document_context so far, in order
    ragQueries,      \* number of queries made so far
    ragLast,         \* the last query: its text, how the model call ended, what it returned
    ragContext,      \* the context _retrieve_context assembled for the last query
    ragResponse,     \* the response the last query returned
    ragRaised,       \* the exception the last query raised to its caller ("none" if none)
    \* the UI sessions of one process (app.py)
    sessDoc,         \* per session: st.session_state.analyzed_document
    sessPending,     \* per session: what the pipeline of the script run under way has returned
    sessAsked        \* the last query of any session: who asked, with which document, from which context

graphVars == <<nodes, edges, id_map, kgRaised, kgRet, kgCall, kgCalls>>

buildVars == <<kgPc, kgResult, kgIdx, kgPending, kgBuilds, kgPrevIds, kgRebuild>>

cacheVars == <<cache, cacheConn>>

cacheOpVars == <<cacheLast, cacheCalls, cacheLog>>

pipeVars == <<pc, file, documentContent, uuidCount, documentId, extractOutcome, entities,
              analysisResult, ruleIdx, findings, assessLog, llmCalls, ragCtx, returned,
              raisedToCaller, pipeExc, stageLog, ragAtStart, cacheAtStart>>

ragVars == <<ragLoads, ragQueries, ragLast, ragContext, ragResponse, ragRaised>>

sessVars == <<sessDoc, sessPending, sessAsked>>

vars == <<graphVars, buildVars, cacheVars, cacheOpVars, pipeVars, ragVars, sessVars>>

\* Python None, for a field that otherwise holds a text (a one-token text no real text equals)
None == <<"<None>">>

\* a key that a raw clause record does not carry
AbsentKey == <<"<absent>">>

\* Python truthiness of an optional text
Truthy(t) == t # None /\ t # <<>>

\* an optional integer that is None or whose key is missing from the dict
NoDuration == -1

\* Python truthiness of an optional integer: None and 0 are falsy
TruthyInt(n) == n # NoDuration /\ n # 0

(***************************************************************************)
(* Text helpers                                                            *)
(***************************************************************************)
Whitespace == {" ", "\t", "\n"}

\* characters that are neither \w nor "-" (the ones the model's texts use)
NonWordChars == {" ", "\t", "\n", ".", ",", "&", ":", "$", "/", "'"}

UpperChars == <<"A","B","C","D","E","F","G","H","I","J","K","L","M","N","O","P","Q","R","S","T","U","V","W","X","Y","Z">>
LowerChars == <<"a","b","c","d","e","f","g","h","i","j","k","l","m","n","o","p","q","r","s","t","u","v","w","x","y","z">>

LowerChar(c) ==
    IF \E i \in 1..Len(UpperChars) : UpperChars[i] = c
    THEN LowerChars[CHOOSE i \in 1..Len(UpperChars) : UpperChars[i] = c]
    ELSE c

\* str.lower()
Lower(t) == [i \in 1..Len(t) |-> LowerChar(t[i])]

\* needle in hay  (Python substring test)
Contains(hay, needle) ==
    \E i \in 0..(Len(hay) - Len(needle)) : SubSeq(hay, i + 1, i + Len(needle)) = needle

RECURSIVE LStrip(_)
LStrip(t) == IF t # <<>> /\ Head(t) \in Whitespace THEN LStrip(Tail(t)) ELSE t

RECURSIVE RStrip(_)
RStrip(t) ==
    IF t # <<>> /\ t[Len(t)] \in Whitespace THEN RStrip(SubSeq(t, 1, Len(t) - 1)) ELSE t

\* str.strip()
Strip(t) == RStrip(LStrip(t))

\* str.replace(a, b) for a one-character a and a text b
RECURSIVE Replace(_, _, _)
Replace(t, a, b) ==
    IF t = <<>> THEN <<>>
    ELSE (IF Head(t) = a THEN b ELSE <<Head(t)>>) \o Replace(Tail(t), a, b)

\* re.sub(r'[^\w-]', '', t)
RemoveNonWord(t) == SelectSeq(t, LAMBDA c : c \notin NonWordChars)

IdMaxLen == 50

\* t[:n]
Prefix(t, n) == SubSeq(t, 1, IF Len(t) < n THEN Len(t) ELSE n)

SanitizeId(text) ==
    Prefix(RemoveNonWord(Replace(Replace(Replace(Strip(text), " ", <<"_">>), ".", <<>>), ",", <<>>)),
           IdMaxLen)

(***************************************************************************)
(* RedisCache: a key-value store; without a connection every operation is  *)
(* a no-op                                                                 *)
(***************************************************************************)
EmptyCache == [k \in {} |-> None]

CacheSet(c, conn, key, value, ex) ==
    IF ~conn THEN c ELSE (key :> [value |-> value, ex |-> ex]) @@ c

CacheHas(c, conn, key) == conn /\ key \in DOMAIN c

CacheDelete(c, conn, key) ==
    IF ~conn THEN c ELSE [k \in (DOMAIN c) \ {key} |-> c[k]]

CacheTtl == 3600

SetCallUnguarded(c, conn, key, value, ex) ==
    IF conn
    THEN [cache |-> CacheSet(c, conn, key, value, ex), op |-> "set", key |-> key,
          ok |-> TRUE, raised |-> "none"]
    ELSE [cache |-> c, op |-> "set", key |-> key, ok |-> FALSE, raised |-> "AttributeError"]

\* set, lines 60-68: True when stored, False without a connection; nothing is raised
SetCall(c, conn, key, value, ex) ==
    [cache |-> CacheSet(c, conn, key, value, ex), op |-> "set", key |-> key,
     ok |-> conn, raised |-> "none"]

\* get, lines 78-87: ok says that a value was returned (not None); nothing is raised
GetCall(c, conn, key) ==
    [cache |-> c, op |-> "get", key |-> key, ok |-> CacheHas(c, conn, key), raised |-> "none"]

\* delete, lines 93-100: True with a connection, False without; nothing is raised
DeleteCall(c, conn, key) ==
    [cache |-> CacheDelete(c, conn, key), op |-> "delete", key |-> key,
     ok |-> conn, raised |-> "none"]

\* what is kept of a call: everything but the store
Called(x) == [op |-> x.op, key |-> x.key, ok |-> x.ok, raised |-> x.raised]

NoCacheCall == [op |-> "none", key |-> None, ok |-> FALSE, raised |-> "none"]

\* the call x, made by the stage "by", is the last call and the next entry of the log
CacheNoted(x, by) ==
    /\ cacheLast' = Called(x)
    /\ cacheLog' = Append(cacheLog, [op |-> x.op, key |-> x.key, ok |-> x.ok, by |-> by])

InitCacheCalls ==
    /\ cacheLast = NoCacheCall
    /\ cacheCalls = 0
    /\ cacheLog = <<>>

(***************************************************************************)
(* Data model (models/document_models.py)                                  *)
(***************************************************************************)
\* ExtractedEntities(): every list empty, every optional scalar None
EmptyEntities ==
    [ document_type |-> None, document_title |-> None, document_effective_date |-> None,
      parties |-> <<>>, jurisdiction |-> None,
      dates |-> <<>>, monetary_values |-> <<>>, defined_terms |-> <<>>,
      indemnification_clauses |-> <<>>, force_majeure_clauses |-> <<>>,
      governing_law_clauses |-> <<>>, confidentiality_clauses |-> <<>>,
      termination_clauses |-> <<>>,
      analysis_summary |-> None ]

\* DocumentAnalysisResult.knowledge_graph before the graph stage has run (None)
NoGraph == [present |-> FALSE, nodes |-> <<>>, edges |-> <<>>]

KnowledgeGraph(ns, es) == [present |-> TRUE, nodes |-> ns, edges |-> es]

(***************************************************************************)
(* InformationExtractionAgent.run: post-processing of the entity bundle    *)
(***************************************************************************)
EffectiveDateKeywords ==
    << <<"e","f","f","e","c","t","i","v","e"," ","d","a","t","e">>,
       <<"p","o","l","i","c","y"," ","d","a","t","e">>,
       <<"a","g","r","e","e","m","e","n","t"," ","d","a","t","e">>,
       <<"e","x","e","c","u","t","i","o","n"," ","d","a","t","e">>,
       <<"d","o","c","u","m","e","n","t"," ","d","a","t","e">>,
       <<"d","a","t","e">> >>

\* the inner loop: the first date item, in list order, whose type contains the keyword
RECURSIVE ScanDates(_, _, _)
ScanDates(dates, i, keyword) ==
    IF i > Len(dates) THEN None
    ELSE IF dates[i].date_type # <<>> /\ Contains(Lower(dates[i].date_type), keyword)
         THEN dates[i].date_value
         ELSE ScanDates(dates, i + 1, keyword)

\* the outer loop: keywords in priority order, stopping at the first that matched
RECURSIVE ScanKeywords(_, _)
ScanKeywords(dates, k) ==
    IF k > Len(EffectiveDateKeywords) THEN None
    ELSE LET d == ScanDates(dates, 1, EffectiveDateKeywords[k])
         IN  IF d # None THEN d ELSE ScanKeywords(dates, k + 1)

PrimaryEffectiveDateFirstItem(e) ==
    IF e.document_effective_date # None THEN e.document_effective_date
    ELSE IF e.dates = <<>> THEN None
    ELSE e.dates[1].date_value

PrimaryEffectiveDate(e) ==
    IF e.document_effective_date # None THEN e.document_effective_date
    ELSE IF e.dates = <<>> THEN None
    ELSE LET d == ScanKeywords(e.dates, 1)
         IN  IF d # None THEN d ELSE e.dates[1].date_value

ClauseTypeOrder ==
    <<"IndemnificationClause", "ForceMajeureClause", "GoverningLawClause",
      "ConfidentialityClause", "TerminationClause">>

ClausesOfType(e, ctype) ==
    CASE ctype = "IndemnificationClause" -> e.indemnification_clauses
      [] ctype = "ForceMajeureClause"    -> e.force_majeure_clauses
      [] ctype = "GoverningLawClause"    -> e.governing_law_clauses
      [] ctype = "ConfidentialityClause" -> e.confidentiality_clauses
      [] ctype = "TerminationClause"     -> e.termination_clauses

\* extracted_clauses_dict: the five lists in declaration order, empty ones filtered out
ExtractedClausesDict(e) ==
    SelectSeq([i \in 1..Len(ClauseTypeOrder) |->
                  [clause_type |-> ClauseTypeOrder[i], clauses |-> ClausesOfType(e, ClauseTypeOrder[i])]],
              LAMBDA kv : kv.clauses # <<>>)

OrElse(t, default) == IF Truthy(t) THEN t ELSE default

Uncategorized == <<"Uncategorized">>
NoSummary == <<"No summary generated by LLM.">>

MakeAnalysisResult(document_id, document_content, e) ==
    [ document_id |-> document_id,
      file_name |-> document_content.file_name,
      metadata |-> [ document_type |-> OrElse(e.document_type, Uncategorized),
                     title |-> OrElse(e.document_title, document_content.file_name),
                     effective_date |-> PrimaryEffectiveDate(e),
                     parties_summary |-> e.parties,
                     jurisdiction |-> e.jurisdiction ],
      extracted_parties |-> e.parties,
      extracted_dates |-> e.dates,
      extracted_monetary_values |-> e.monetary_values,
      extracted_defined_terms |-> e.defined_terms,
      extracted_clauses_summary |-> ExtractedClausesDict(e),
      compliance_findings |-> <<>>,
      analysis_summary |-> OrElse(e.analysis_summary, NoSummary),
      full_text_content |-> document_content.text_content,
      paragraphs |-> document_content.paragraphs,
      knowledge_graph |-> NoGraph ]

(***************************************************************************)
(* KnowledgeGraphAgent: node and edge addition                             *)
(* The graph of an agent is the record [nodes, edges, id_map, raised, ret].*)
(* id_map maps every added id to itself; it is modelled by its key set.    *)
(***************************************************************************)
NoAttrs == [of |-> "empty"]

Node(id, type, name, attributes) ==
    [id |-> id, type |-> type, name |-> name, attributes |-> attributes]

Edge(source_id, target_id, type, attributes) ==
    [source_id |-> source_id, target_id |-> target_id, type |-> type, attributes |-> attributes]

EmptyGraph == [nodes |-> <<>>, edges |-> <<>>, id_map |-> {}, raised |-> "none", ret |-> None]

NodeIds(ns) == {ns[i].id : i \in 1..Len(ns)}

FirstWithId(ns, id) == ns[CHOOSE i \in 1..Len(ns) : ns[i].id = id /\ \A j \in 1..(i - 1) : ns[j].id # id]

AddNodeNoMark(g, node_id, node_type, name, attributes) ==
    IF node_id \notin g.id_map
    THEN [g EXCEPT !.nodes = Append(@, Node(node_id, node_type, name, attributes)),
                   !.ret = Node(node_id, node_type, name, attributes)]
    ELSE IF node_id \in NodeIds(g.nodes)
         THEN [g EXCEPT !.ret = FirstWithId(g.nodes, node_id)]
         ELSE [g EXCEPT !.raised = "ValueError", !.ret = None]

AddNode(g, node_id, node_type, name, attributes) ==
    IF node_id \notin g.id_map
    THEN [g EXCEPT !.nodes = Append(@, Node(node_id, node_type, name, attributes)),
                   !.id_map = @ \cup {node_id},
                   !.ret = Node(node_id, node_type, name, attributes)]
    ELSE IF node_id \in NodeIds(g.nodes)
         THEN [g EXCEPT !.ret = FirstWithId(g.nodes, node_id)]
         ELSE [g EXCEPT !.raised = "ValueError", !.ret = None]

AddEdgeUnchecked(g, source_id, target_id, edge_type, attributes) ==
    [g EXCEPT !.edges = Append(@, Edge(source_id, target_id, edge_type, attributes))]

AddEdge(g, source_id, target_id, edge_type, attributes) ==
    IF source_id \notin g.id_map \/ target_id \notin g.id_map
    THEN g
    ELSE [g EXCEPT !.edges = Append(@, Edge(source_id, target_id, edge_type, attributes))]

\* run(), lines 65-67: the three collections are reset
ResetKeepsIdMap(g) == [EmptyGraph EXCEPT !.id_map = g.id_map]

ResetKeepsEdges(g) == [EmptyGraph EXCEPT !.edges = g.edges]

ResetGraph(g) == EmptyGraph

(***************************************************************************)
(* KnowledgeGraphAgent.run: the build as a sequence of work items, each    *)
(* item a sequence of _add_node / _add_edge calls                          *)
(***************************************************************************)
\* f"{mv.amount}" for a float with an integral value, e.g. 1500.0
FloatStr(amount) == <<ToString(amount), ".", "0">>

DocIdFromFileName(r) == <<"Document:">> \o r.file_name

DocId(r) == <<"Document:">> \o r.document_id

EffectiveDateId(d) == <<"Date:">> \o d

JurisdictionId(j) == <<"Jurisdiction:">> \o SanitizeId(j)

PartyId(party) == <<"Party:">> \o SanitizeId(party.name)

DateClauseId(dc) ==
    <<"Date:">> \o SanitizeId(dc.date_value) \o <<"-">> \o SanitizeId(dc.date_type)

MonetaryValueIdAmountOnly(mv) == <<"MonetaryValue:">> \o FloatStr(mv.amount)

\* line 106
MonetaryValueId(mv) == <<"MonetaryValue:">> \o FloatStr(mv.amount) \o <<"_">> \o mv.currency

DefinedTermId(dt) == <<"DefinedTerm:">> \o SanitizeId(dt.term)

\* f"Clause:{clause_type}:{uuid.uuid4().hex[:8]}", u the drawn suffix
ClauseId(clause_type, u) == <<"Clause:", clause_type, ":", u>>

DurationId(years) == <<"Duration:", ToString(years), "Years">>

\* clause_type.replace("Clause", "")
ClauseName(clause_type) ==
    CASE clause_type = "IndemnificationClause" -> <<"Indemnification">>
      [] clause_type = "ForceMajeureClause"    -> <<"ForceMajeure">>
      [] clause_type = "GoverningLawClause"    -> <<"GoverningLaw">>
      [] clause_type = "ConfidentialityClause" -> <<"Confidentiality">>
      [] clause_type = "TerminationClause"     -> <<"Termination">>

\* f"HAS_{clause_type.upper()}"
ClauseEdgeType(clause_type) ==
    CASE clause_type = "IndemnificationClause" -> "HAS_INDEMNIFICATIONCLAUSE"
      [] clause_type = "ForceMajeureClause"    -> "HAS_FORCEMAJEURECLAUSE"
      [] clause_type = "GoverningLawClause"    -> "HAS_GOVERNINGLAWCLAUSE"
      [] clause_type = "ConfidentialityClause" -> "HAS_CONFIDENTIALITYCLAUSE"
      [] clause_type = "TerminationClause"     -> "HAS_TERMINATIONCLAUSE"

ExcerptLen == 100

Item(kind, clause_type, v) == [kind |-> kind, clause_type |-> clause_type, v |-> v]

ItemsOf(kind, clause_type, list) == [i \in 1..Len(list) |-> Item(kind, clause_type, list[i])]

RECURSIVE ClauseItems(_)
ClauseItems(summary) ==
    IF summary = <<>> THEN <<>>
    ELSE ItemsOf("clause", Head(summary).clause_type, Head(summary).clauses)
         \o ClauseItems(Tail(summary))

\* the order in which run() visits the result
Items(r) ==
    <<Item("document", "", <<>>)>>
    \o (IF r.metadata.effective_date # None
        THEN <<Item("effective_date", "", r.metadata.effective_date)>> ELSE <<>>)
    \o (IF Truthy(r.metadata.jurisdiction)
        THEN <<Item("jurisdiction", "", r.metadata.jurisdiction)>> ELSE <<>>)
    \o ItemsOf("party", "", r.extracted_parties)
    \o ItemsOf("date", "", r.extracted_dates)
    \o ItemsOf("monetary_value", "", r.extracted_monetary_values)
    \o ItemsOf("defined_term", "", r.extracted_defined_terms)
    \o ClauseItems(r.extracted_clauses_summary)

NodeOp(id, type, name, attributes) ==
    [op |-> "node", id |-> id, type |-> type, name |-> name, attributes |-> attributes]

EdgeOp(source_id, target_id, type, attributes) ==
    [op |-> "edge", source_id |-> source_id, target_id |-> target_id, type |-> type,
     attributes |-> attributes]

RaiseOp(exc) == [op |-> "raise", exc |-> exc]

\* the id of the node an item adds; only a clause's id uses the drawn suffix u
EntityIdAllRandom(r, item, u) ==
    CASE item.kind = "document"       -> DocId(r)
      [] item.kind = "effective_date" -> EffectiveDateId(item.v) \o <<u>>
      [] item.kind = "jurisdiction"   -> JurisdictionId(item.v) \o <<u>>
      [] item.kind = "party"          -> PartyId(item.v) \o <<u>>
      [] item.kind = "date"           -> DateClauseId(item.v) \o <<u>>
      [] item.kind = "monetary_value" -> MonetaryValueId(item.v) \o <<u>>
      [] item.kind = "defined_term"   -> DefinedTermId(item.v) \o <<u>>
      [] item.kind = "clause"         -> ClauseId(item.clause_type, u)

EntityId(r, item, u) ==
    CASE item.kind = "document"       -> DocId(r)
      [] item.kind = "effective_date" -> EffectiveDateId(item.v)
      [] item.kind = "jurisdiction"   -> JurisdictionId(item.v)
      [] item.kind = "party"          -> PartyId(item.v)
      [] item.kind = "date"           -> DateClauseId(item.v)
      [] item.kind = "monetary_value" -> MonetaryValueId(item.v)
      [] item.kind = "defined_term"   -> DefinedTermId(item.v)
      [] item.kind = "clause"         -> ClauseId(item.clause_type, u)

\* the calls run() makes for one item, in order; a clause whose clause_text is None
\* raises TypeError (None[:100]) while the arguments of _add_node are evaluated
ItemOps(r, item, u) ==
    LET doc_id == DocId(r)
        id == EntityId(r, item, u)
        v == item.v
    IN  CASE item.kind = "document" ->
               << NodeOp(id, "Document", OrElse(r.metadata.title, r.file_name),
                         [file_name |-> r.file_name, document_type |-> r.metadata.document_type,
                          analysis_summary |-> r.analysis_summary]) >>
          [] item.kind = "effective_date" ->
               << NodeOp(id, "Date", v, [type |-> "Effective Date"]),
                  EdgeOp(doc_id, id, "HAS_EFFECTIVE_DATE", NoAttrs) >>
          [] item.kind = "jurisdiction" ->
               << NodeOp(id, "Jurisdiction", v, NoAttrs),
                  EdgeOp(doc_id, id, "GOVERNED_BY", NoAttrs) >>
          [] item.kind = "party" ->
               << NodeOp(id, "Party", v.name, v),
                  EdgeOp(doc_id, id, "HAS_PARTY", [role |-> v.role]) >>
          [] item.kind = "date" ->
               << NodeOp(id, "Date", v.date_value, v),
                  EdgeOp(doc_id, id, "REFERENCES_DATE", [type |-> v.date_type]) >>
          [] item.kind = "monetary_value" ->
               << NodeOp(id, "MonetaryValue", FloatStr(v.amount) \o <<" ">> \o v.currency, v),
                  EdgeOp(doc_id, id, "HAS_MONETARY_VALUE", [reason |-> v.reason]) >>
          [] item.kind = "defined_term" ->
               << NodeOp(id, "DefinedTerm", v.term, v),
                  EdgeOp(doc_id, id, "DEFINES", [definition |-> v.definition]) >>
          [] item.kind = "clause" ->
               IF v.clause_text = None
               THEN << RaiseOp("TypeError") >>
               ELSE << NodeOp(id, "Clause", ClauseName(item.clause_type),
                              [text_excerpt |-> IF v.clause_text = AbsentKey THEN <<>>
                                                ELSE Prefix(v.clause_text, ExcerptLen),
                               clause |-> v]),
                       EdgeOp(doc_id, id, ClauseEdgeType(item.clause_type), NoAttrs) >>
                    \o (IF item.clause_type = "ConfidentialityClause" /\ TruthyInt(v.duration_years)
                        THEN << NodeOp(DurationId(v.duration_years), "Duration",
                                       <<ToString(v.duration_years), " ", "Years">>, NoAttrs),
                                EdgeOp(id, DurationId(v.duration_years), "HAS_DURATION", NoAttrs) >>
                        ELSE <<>>)

ApplyOp(g, o) ==
    CASE o.op = "node"  -> AddNode(g, o.id, o.type, o.name, o.attributes)
      [] o.op = "edge"  -> AddEdge(g, o.source_id, o.target_id, o.type, o.attributes)
      [] o.op = "raise" -> [g EXCEPT !.raised = o.exc]

RECURSIVE ApplyOps(_, _)
ApplyOps(g, ops) ==
    IF ops = <<>> \/ g.raised # "none" THEN g
    ELSE ApplyOps(ApplyOp(g, Head(ops)), Tail(ops))

\* the whole loop of run(), us[i] the suffix drawn while item i is processed
RECURSIVE RunItems(_, _, _, _, _)
RunItems(g, r, items, i, us) ==
    IF i > Len(items) \/ g.raised # "none" THEN g
    ELSE RunItems(ApplyOps(g, ItemOps(r, items[i], us[i])), r, items, i + 1, us)

BuildGraph(g, r, us) == RunItems(ResetGraph(g), r, Items(r), 1, us)

\* the 8 hex digits of uuid4 that make a clause id
Suffixes == {"u1", "u2"}

AgentGraph == [nodes |-> nodes, edges |-> edges, id_map |-> id_map, raised |-> kgRaised, ret |-> kgRet]

SetAgent(g) ==
    /\ nodes' = g.nodes
    /\ edges' = g.edges
    /\ id_map' = g.id_map
    /\ kgRaised' = g.raised
    /\ kgRet' = g.ret

InitAgent ==
    /\ nodes = <<>>
    /\ edges = <<>>
    /\ id_map = {}
    /\ kgRaised = "none"
    /\ kgRet = None
    /\ kgCall = [op |-> "none"]
    /\ kgCalls = 0

(***************************************************************************)
(* Analysis results handed to the graph stage: every result the extraction *)
(* stage assembles from a bundle of at most MaxEntities list entries       *)
(***************************************************************************)
MaxEntities == 2
MaxBuilds == 2

Date1 == <<"2024-01-01">>
Date2 == <<"2024-06-01">>

TypeEffectiveDate == <<"E","f","f","e","c","t","i","v","e"," ","D","a","t","e">>
TypeSigning == <<"S","i","g","n","i","n","g">>

Atom(cat, v) == [cat |-> cat, v |-> v]

\* two parties whose names sanitize to the same id
PartyAtoms ==
    { Atom(1, [name |-> <<"A"," ","B">>, role |-> "Lessor"]),
      Atom(1, [name |-> <<"A","_","B">>, role |-> "Lessee"]) }

\* date entries with the same value and different types, two of the types differing by a dot
DateAtoms ==
    { Atom(2, [date_type |-> TypeEffectiveDate, date_value |-> Date1]),
      Atom(2, [date_type |-> TypeSigning, date_value |-> Date1]),
      Atom(2, [date_type |-> TypeSigning \o <<".">>, date_value |-> Date1]) }

MoneyAtoms ==
    { Atom(3, [amount |-> 1500, currency |-> <<"U","S","D">>, reason |-> "Rent"]),
      Atom(3, [amount |-> 20, currency |-> <<"E","U","R">>, reason |-> "Deposit"]) }

TermAtoms == { Atom(4, [term |-> <<"A","g","r","e","e","m","e","n","t">>, definition |-> "def"]) }

\* raw clause records, with and without a text, with a duration, without one and with 0
ConfidentialityAtoms ==
    { Atom(5, [clause_text |-> <<"c","t">>, duration_years |-> 5]),
      Atom(5, [clause_text |-> AbsentKey, duration_years |-> NoDuration]),
      Atom(5, [clause_text |-> <<"c","t">>, duration_years |-> 0]),
      Atom(5, [clause_text |-> None, duration_years |-> 5]) }

TerminationAtoms == { Atom(6, [clause_text |-> <<"c","t">>, duration_years |-> 5]) }

Atoms == PartyAtoms \cup DateAtoms \cup MoneyAtoms \cup TermAtoms
         \cup ConfidentialityAtoms \cup TerminationAtoms

\* lists of atoms grouped by category (each category's list in any order)
AtomSeqs(k) ==
    { s \in UNION { [1..n -> Atoms] : n \in 0..k } :
        \A i \in 1..(Len(s) - 1) : s[i].cat <= s[i + 1].cat }

OfCat(s, cat) ==
    LET sel == SelectSeq(s, LAMBDA a : a.cat = cat)
    IN  [i \in 1..Len(sel) |-> sel[i].v]

BundleOf(s, effective, jurisdiction) ==
    [ EmptyEntities EXCEPT
        !.document_effective_date = effective,
        !.jurisdiction = jurisdiction,
        !.parties = OfCat(s, 1),
        !.dates = OfCat(s, 2),
        !.monetary_values = OfCat(s, 3),
        !.defined_terms = OfCat(s, 4),
        !.confidentiality_clauses = OfCat(s, 5),
        !.termination_clauses = OfCat(s, 6) ]

Bundles(k) ==
    { BundleOf(s, d, j) : s \in AtomSeqs(k), d \in {None, Date2}, j \in {None, <<"N",".","Y",".">>} }

ContentA == [file_name |-> <<"a.txt">>, text_content |-> <<"text a">>, paragraphs |-> <<>>]
ContentB == [file_name |-> <<"b.txt">>, text_content |-> <<"text b">>, paragraphs |-> <<>>]

\* another document's result, for a second run of the same agent instance
AltResult ==
    MakeAnalysisResult(<<"doc2">>, ContentB,
        [ EmptyEntities EXCEPT
            !.parties = << [name |-> <<"C">>, role |-> "Lessor"] >>,
            !.termination_clauses = << [clause_text |-> <<"c","t">>, duration_years |-> NoDuration] >> ])

(***************************************************************************)
(* DocumentReaderAgent.run                                                 *)
(***************************************************************************)
NoContent == [file_name |-> None, text_content |-> None, paragraphs |-> <<>>]

File(kind, content) == [kind |-> kind, content |-> content]

\* the files a caller may pass: missing, of an unsupported type, unreadable, or readable
Files ==
    { File("missing", NoContent), File("unsupported", NoContent),
      File("read_error", NoContent), File("ok", ContentA) }

ReaderRunLenient(f) ==
    IF f.kind \in {"ok", "unsupported"}
    THEN [raised |-> "none", content |-> f.content]
    ELSE [raised |-> "ValueError", content |-> NoContent]

\* raises ValueError for a missing file (line 40), an unsupported type (59, re-raised at 61)
\* and a read error (61); otherwise returns the cleaned, segmented content
ReaderRun(f) ==
    IF f.kind = "ok"
    THEN [raised |-> "none", content |-> f.content]
    ELSE [raised |-> "ValueError", content |-> NoContent]

(***************************************************************************)
(* InformationExtractionAgent.run: the model call                          *)
(***************************************************************************)
\* how a call of the model collaborator ends
LlmKinds == {"ok", "validation_error", "error"}

EntitiesAfterCallKeepsOutput(kind, raw) == raw

\* lines 73-92: the model's output on success, ExtractedEntities() on any failure
EntitiesAfterCall(kind, raw) == IF kind = "ok" THEN raw ELSE EmptyEntities

\* the graph stage's key under the extraction prefix
AnalysisResultKeyShared(r) == <<"full_analysis_cache:">> \o r.document_id

AnalysisResultKey(r) == <<"analysis_result:">> \o r.document_id

FullAnalysisKeyShared(document_id) == <<"full_analysis_cache:">>

FullAnalysisKey(document_id) == <<"full_analysis_cache:">> \o document_id

\* str(uuid.uuid4()): an identifier no earlier call produced
NewDocumentIdReused(n) == <<"doc", "0">>

NewDocumentId(n) == <<"doc", ToString(n)>>

(***************************************************************************)
(* ComplianceAnalyzerAgent                                                 *)
(***************************************************************************)
Rule(rule_id, description, severity_level, recommendation_template) ==
    [rule_id |-> rule_id, description |-> description, severity_level |-> severity_level,
     recommendation_template |-> recommendation_template]

ComplianceRules ==
    << Rule("NDA-001", "confidentiality period", "High", <<"template NDA-001">>),
       Rule("LEASE-001", "rent amount presence", "Critical", <<"template LEASE-001">>),
       Rule("GDPR-001", "data minimization", "Medium", <<"template GDPR-001">>),
       Rule("TERMINATION-001", "termination notice period", "High", <<"template TERMINATION-001">>) >>

NumRules == Len(ComplianceRules)

Assessment(rule_id, is_compliant, finding_details, relevant_text_snippets, recommendation) ==
    [rule_id |-> rule_id, is_compliant |-> is_compliant, finding_details |-> finding_details,
     relevant_text_snippets |-> relevant_text_snippets, recommendation |-> recommendation]

\* what the model may return for a rule: a verdict, with or without a recommendation
\* (the rule_id it echoes need not be the rule's)
AssessOutputs ==
    { Assessment("LLM-ID", TRUE, <<"compliant">>, << <<"snippet">> >>, None),
      Assessment("LLM-ID", FALSE, <<"not compliant">>, << <<"snippet">> >>, <<"llm recommendation">>),
      Assessment("LLM-ID", FALSE, <<"not compliant">>, <<>>, <<>>) }

\* a call of the model that fails returns no output
NoAssessment == Assessment("", FALSE, None, <<>>, None)

ValidationDetails == <<"LLM failed to produce valid assessment output: ">>
ErrorDetails == <<"An unexpected error occurred during LLM rule assessment: ">>

AssessRuleCompliantOnError(rule, kind, out) ==
    IF kind = "ok" THEN out
    ELSE Assessment(rule.rule_id, TRUE, <<>>, <<>>, None)

\* _assess_rule_with_llm, lines 105-127
AssessRuleWithLlm(rule, kind, out) ==
    CASE kind = "ok" -> out
      [] kind = "validation_error" ->
           Assessment(rule.rule_id, FALSE, ValidationDetails, <<>>,
                      <<"Internal system error during rule assessment. Check LLM output format.">>)
      [] kind = "error" ->
           Assessment(rule.rule_id, FALSE, ErrorDetails, <<>>,
                      <<"Internal system error during rule assessment.">>)

FindingFromOutput(rule, a) ==
    [ rule_id |-> a.rule_id,
      rule_description |-> rule.description,
      is_compliant |-> a.is_compliant,
      finding_details |-> a.finding_details,
      relevant_text_snippets |-> a.relevant_text_snippets,
      recommendation |-> a.recommendation,
      severity |-> rule.severity_level ]

\* run, lines 169-177
Finding(rule, a) ==
    [ rule_id |-> rule.rule_id,
      rule_description |-> rule.description,
      is_compliant |-> a.is_compliant,
      finding_details |-> a.finding_details,
      relevant_text_snippets |-> a.relevant_text_snippets,
      recommendation |-> OrElse(a.recommendation, rule.recommendation_template),
      severity |-> rule.severity_level ]

ExtendFindings(r, fs) == [r EXCEPT !.compliance_findings = @ \o fs]

\* run, line 181: analysis_result.compliance_findings = findings
SetFindings(r, fs) == [r EXCEPT !.compliance_findings = fs]

PrependFinding(fs, f) == <<f>> \o fs

\* run, line 178: findings.append(finding)
AppendFinding(fs, f) == Append(fs, f)

(***************************************************************************)
(* The orchestrator at rest, before a run or after an earlier one          *)
(***************************************************************************)
NoResult == [present |-> FALSE]

Pending == [status |-> "pending"]
ReturnedNone == [status |-> "none"]
Returned(r) == [status |-> "result", value |-> r]

\* the bundles the model may return in a pipeline run
PipeBundles ==
    { [ EmptyEntities EXCEPT
          !.jurisdiction = <<"N",".","Y",".">>,
          !.parties = << [name |-> <<"A"," ","B">>, role |-> "Lessor"] >>,
          !.dates = << [date_type |-> TypeSigning, date_value |-> Date1] >>,
          !.analysis_summary = <<"summary">> ],
      [ EmptyEntities EXCEPT
          !.document_effective_date = Date2,
          !.monetary_values = << [amount |-> 1500, currency |-> <<"U","S","D">>, reason |-> "Rent"] >>,
          !.confidentiality_clauses = << [clause_text |-> <<"c","t">>, duration_years |-> 5] >> ],
      [ EmptyEntities EXCEPT
          !.termination_clauses = << [clause_text |-> None, duration_years |-> NoDuration] >> ] }

ClauseIndices(items) == {i \in 1..Len(items) : items[i].kind = "clause"}

\* one suffix per item, the clauses' drawn freely
SuffixChoices(items) ==
    { [i \in 1..Len(items) |-> IF i \in DOMAIN cu THEN cu[i] ELSE "u1"] :
        cu \in [ClauseIndices(items) -> Suffixes] }

\* an earlier, successful analysis of another document by the same process
PriorExtracted ==
    MakeAnalysisResult(NewDocumentId(0), ContentB,
        [ EmptyEntities EXCEPT !.parties = << [name |-> <<"C">>, role |-> "Lessor"] >> ])

PriorResult ==
    LET withFindings ==
            [ PriorExtracted EXCEPT !.compliance_findings =
                [i \in 1..NumRules |->
                    Finding(ComplianceRules[i],
                            Assessment("LLM-ID", TRUE, <<"compliant">>, <<>>, None))] ]
        g == BuildGraph(EmptyGraph, withFindings,
                        [i \in 1..Len(Items(withFindings)) |-> "u1"])
    IN  [ withFindings EXCEPT !.knowledge_graph = KnowledgeGraph(g.nodes, g.edges) ]

PriorCache(conn) ==
    CacheSet(CacheSet(EmptyCache, conn, FullAnalysisKey(PriorExtracted.document_id),
                      PriorExtracted, CacheTtl),
             conn, AnalysisResultKey(PriorResult), PriorResult, CacheTtl)

InitRunAt(at, f, content) ==
    /\ pc = at
    /\ file = f
    /\ documentContent = content
    /\ documentId = None
    /\ extractOutcome = "none"
    /\ entities = EmptyEntities
    /\ analysisResult = NoResult
    /\ ruleIdx = 0
    /\ findings = <<>>
    /\ assessLog = <<>>
    /\ llmCalls = 0
    /\ returned = Pending
    /\ raisedToCaller = FALSE
    /\ pipeExc = "none"
    /\ stageLog = <<>>

\* before the caller has passed a file
InitRun == InitRunAt("idle", File("none", NoContent), NoContent)

(***************************************************************************)
(* RAGAgent (agents/rag_agent.py)                                          *)
(***************************************************************************)
Loaded(ctx) == ctx # NoResult

LoadKeepsFirst(old, new) == IF Loaded(old) THEN old ELSE new

\* load_document_context, line 25
LoadDocumentContext(old, new) == new

RagResponse(answer, confidence, relevant_snippets, source_nodes) ==
    [answer |-> answer, confidence |-> confidence,
     relevant_snippets |-> relevant_snippets, source_nodes |-> source_nodes]

NoResponse == [answer |-> None, confidence |-> "none", relevant_snippets |-> <<>>, source_nodes |-> <<>>]

SnippetLead == 50
MaxSnippetChars == 500
MaxSnippets == 3

Max(a, b) == IF a >= b THEN a ELSE b
Min(a, b) == IF a <= b THEN a ELSE b

\* str.find: the 0-based index of the first occurrence (the caller has checked there is one)
Find(hay, needle) ==
    CHOOSE i \in 0..(Len(hay) - Len(needle)) :
        /\ SubSeq(hay, i + 1, i + Len(needle)) = needle
        /\ \A j \in 0..(i - 1) : SubSeq(hay, j + 1, j + Len(needle)) # needle

\* lines 53-57
Snippet(text, query_lower) ==
    LET start_index == Max(0, Find(Lower(text), query_lower) - SnippetLead)
        end_index == Min(Len(text), start_index + MaxSnippetChars)
        snippet == SubSeq(text, start_index + 1, end_index)
    IN  IF Len(text) > MaxSnippetChars
        THEN IF end_index < Len(text) THEN Strip(snippet) \o <<".", ".", ".">> ELSE Strip(snippet)
        ELSE snippet

\* lines 51-60: the paragraphs in order, until MaxSnippets snippets have been collected
RECURSIVE CollectSnippets(_, _, _, _)
CollectSnippets(paragraphs, i, query_lower, acc) ==
    IF i > Len(paragraphs) \/ Len(acc) >= MaxSnippets THEN acc
    ELSE CollectSnippets(paragraphs, i + 1, query_lower,
             IF Contains(Lower(paragraphs[i].text), query_lower)
             THEN Append(acc, Snippet(paragraphs[i].text, query_lower))
             ELSE acc)

\* line 71; every attribute value stands for its str()
NodeMatches(node, query_lower) ==
    \/ Contains(Lower(node.name), query_lower)
    \/ \E k \in DOMAIN node.attributes : Contains(Lower(node.attributes[k]), query_lower)

\* line 76
EdgeMatches(edge, query_lower, ids) ==
    \/ Contains(Lower(edge.type), query_lower)
    \/ \E i \in 1..Len(ids) : ids[i] = edge.source_id
    \/ \E i \in 1..Len(ids) : ids[i] = edge.target_id

EmptyContextText == [analysis |-> NoResult, snippets |-> <<>>, kg_nodes |-> <<>>, kg_edges |-> <<>>]

NoContext == [context_text |-> EmptyContextText, relevant_snippets |-> <<>>, source_nodes |-> <<>>]

\* _retrieve_context, lines 28-94; context_text is kept as its parts
RetrieveContext(ctx, query) ==
    IF ~Loaded(ctx) THEN NoContext
    ELSE LET query_lower == Lower(query)
             snippets == CollectSnippets(ctx.paragraphs, 1, query_lower, <<>>)
             g == ctx.knowledge_graph
             kg_nodes == IF g.present
                         THEN SelectSeq(g.nodes, LAMBDA n : NodeMatches(n, query_lower)) ELSE <<>>
             ids == [i \in 1..Len(kg_nodes) |-> kg_nodes[i].id]
             kg_edges == IF g.present
                         THEN SelectSeq(g.edges, LAMBDA e : EdgeMatches(e, query_lower, ids)) ELSE <<>>
         IN  [context_text |-> [analysis |-> ctx, snippets |-> snippets,
                                kg_nodes |-> kg_nodes, kg_edges |-> kg_edges],
              relevant_snippets |-> snippets,
              source_nodes |-> ids]

PleaseLoad == <<"Please load a document first.">>
NoRelevantContext == <<"Could not find relevant context in the document.">>
SchemaMismatch == <<"Failed to generate valid RAG response due to schema mismatch. Details: ", "<errors>">>
ProcessingError == <<"An error occurred during RAG processing: ", "<error>">>

Answered(response) == [raised |-> "none", response |-> response]

AnswerKeepsProposed(kind, out, relevant_snippets, source_nodes) ==
    CASE kind = "ok" -> Answered(out)
      [] kind = "validation_error" -> Answered(RagResponse(SchemaMismatch, "Low", <<>>, <<>>))
      [] kind = "error" -> Answered(RagResponse(ProcessingError, "Low", <<>>, <<>>))

AnswerPropagatesError(kind, out, relevant_snippets, source_nodes) ==
    CASE kind = "ok" ->
           Answered([out EXCEPT !.relevant_snippets = relevant_snippets,
                                !.source_nodes = source_nodes])
      [] kind = "validation_error" -> Answered(RagResponse(SchemaMismatch, "Low", <<>>, <<>>))
      [] kind = "error" -> [raised |-> "Exception", response |-> NoResponse]

\* run, lines 134-148: the model call and what is made of its outcome
Answer(kind, out, relevant_snippets, source_nodes) ==
    CASE kind = "ok" ->
           Answered([out EXCEPT !.relevant_snippets = relevant_snippets,
                                !.source_nodes = source_nodes])
      [] kind = "validation_error" -> Answered(RagResponse(SchemaMismatch, "Low", <<>>, <<>>))
      [] kind = "error" -> Answered(RagResponse(ProcessingError, "Low", <<>>, <<>>))

Ran(answered, llm, context) ==
    [raised |-> answered.raised, response |-> answered.response, llm |-> llm, context |-> context]

RagRunUnguarded(ctx, query, kind, out) ==
    LET c == RetrieveContext(ctx, query)
    IN  IF c.context_text = EmptyContextText
        THEN Ran(Answered(RagResponse(NoRelevantContext, "Low", <<>>, <<>>)), "not_called", c)
        ELSE Ran(Answer(kind, out, c.relevant_snippets, c.source_nodes), kind, c)

\* run, lines 97-148; kind and out are how the model call ends if it is made
RagRun(ctx, query, kind, out) ==
    IF ~Loaded(ctx)
    THEN Ran(Answered(RagResponse(PleaseLoad, "Low", <<>>, <<>>)), "not_called", NoContext)
    ELSE LET c == RetrieveContext(ctx, query)
         IN  IF c.context_text = EmptyContextText
             THEN Ran(Answered(RagResponse(NoRelevantContext, "Low", <<>>, <<>>)), "not_called", c)
             ELSE Ran(Answer(kind, out, c.relevant_snippets, c.source_nodes), kind, c)

NoQuery == [query |-> None, loads |-> 0, llm |-> "none", out |-> NoResponse]

Sessions == {"s1", "s2"}

NotRunning == [running |-> FALSE]

NoAsk == [asked |-> FALSE]

\* no session has analysed or asked anything
InitSessIdle ==
    /\ sessDoc = [s \in Sessions |-> NoResult]
    /\ sessPending = [s \in Sessions |-> NotRunning]
    /\ sessAsked = NoAsk

\* a RAGAgent nobody has called yet
InitRagIdle ==
    /\ InitSessIdle
    /\ ragLoads = <<>>
    /\ ragQueries = 0
    /\ ragLast = NoQuery
    /\ ragContext = NoContext
    /\ ragResponse = NoResponse
    /\ ragRaised = "none"

\* a process that has analysed nothing yet
InitPipeFresh ==
    /\ InitRun
    /\ InitRagIdle
    /\ uuidCount = 0
    /\ ragCtx = NoResult
    /\ ragAtStart = NoResult
    /\ cacheAtStart = EmptyCache

(***************************************************************************)
(* KnowledgeGraphAgent.run, one call per step                              *)
(***************************************************************************)
IsClauseId(id) == Head(id) = "Clause:"

NonClauseIds(ns) == {id \in NodeIds(ns) : ~IsClauseId(id)}

InitCacheUp ==
    /\ cache = EmptyCache
    /\ cacheConn = TRUE
    /\ InitCacheCalls

InitKG ==
    /\ InitAgent
    /\ InitCacheUp
    /\ InitPipeFresh
    /\ kgPc = "idle"
    /\ kgResult \in { MakeAnalysisResult(<<"doc1">>, ContentA, e) : e \in Bundles(MaxEntities) }
    /\ kgIdx = 0
    /\ kgPending = <<>>
    /\ kgBuilds = 0
    /\ kgPrevIds = {}
    /\ kgRebuild = FALSE

\* lines 60-67: the run starts by resetting the agent's collections
KGStart ==
    /\ kgPc \in {"idle", "built", "failed"}
    /\ kgBuilds < MaxBuilds
    /\ \E same \in BOOLEAN :
         /\ kgResult' = IF same THEN kgResult ELSE AltResult
         /\ kgRebuild' = (same /\ kgBuilds > 0)
    /\ kgPrevIds' = NonClauseIds(nodes)
    /\ SetAgent(ResetGraph(AgentGraph))
    /\ kgCall' = [op |-> "reset"]
    /\ kgPc' = "running"
    /\ kgIdx' = 1
    /\ kgPending' = <<>>
    /\ kgBuilds' = kgBuilds + 1
    /\ UNCHANGED <<kgCalls, cacheVars, cacheOpVars, pipeVars, ragVars, sessVars>>

\* lines 69-127: the next entity of the result is visited
KGNextItem ==
    /\ kgPc = "running"
    /\ kgPending = <<>>
    /\ kgIdx <= Len(Items(kgResult))
    /\ \E u \in Suffixes : kgPending' = ItemOps(kgResult, Items(kgResult)[kgIdx], u)
    /\ kgIdx' = kgIdx + 1
    /\ UNCHANGED <<graphVars, kgPc, kgResult, kgBuilds, kgPrevIds, kgRebuild, cacheVars, cacheOpVars, pipeVars, ragVars, sessVars>>

\* one _add_node / _add_edge call of the current entity (or the exception it raises)
KGCall ==
    /\ kgPc = "running"
    /\ kgPending # <<>>
    /\ LET g == ApplyOp(AgentGraph, Head(kgPending))
       IN  /\ SetAgent(g)
           /\ kgPc' = IF g.raised # "none" THEN "failed" ELSE "running"
           /\ kgPending' = IF g.raised # "none" THEN <<>> ELSE Tail(kgPending)
    /\ kgCall' = Head(kgPending)
    /\ UNCHANGED <<kgCalls, kgResult, kgIdx, kgBuilds, kgPrevIds, kgRebuild, cacheVars, cacheOpVars, pipeVars, ragVars, sessVars>>

\* lines 129-141: the graph replaces the result's knowledge_graph, the result is cached
KGFinish ==
    /\ kgPc = "running"
    /\ kgPending = <<>>
    /\ kgIdx > Len(Items(kgResult))
    /\ LET r == [kgResult EXCEPT !.knowledge_graph = KnowledgeGraph(nodes, edges)]
           x == SetCall(cache, cacheConn, AnalysisResultKey(r), r, CacheTtl)
       IN  /\ kgResult' = r
           /\ cache' = x.cache
           /\ CacheNoted(x, "graph")
    /\ kgPc' = "built"
    /\ UNCHANGED <<graphVars, kgIdx, kgPending, kgBuilds, kgPrevIds, kgRebuild, cacheConn,
                   cacheCalls, pipeVars, ragVars, sessVars>>

NextKG == KGStart \/ KGNextItem \/ KGCall \/ KGFinish

SpecKG == InitKG /\ [][NextKG]_vars

(***************************************************************************)
(* Direct calls on an agent instance                                       *)
(***************************************************************************)
MaxCalls == 3

CallIds == { <<"Document:", "doc1">>, <<"Party:", "A", "_", "B">>, <<"Date:", "2024-01-01">> }
CallTypes == {"Party", "Date"}
CallEdgeTypes == {"HAS_PARTY"}

AddNodeCall ==
    /\ kgCalls < MaxCalls
    /\ kgRaised = "none"
    /\ \E id \in CallIds, ty \in CallTypes :
         /\ SetAgent(AddNode(AgentGraph, id, ty, id, NoAttrs))
         /\ kgCall' = [op |-> "add_node", id |-> id, type |-> ty]
    /\ kgCalls' = kgCalls + 1
    /\ UNCHANGED <<buildVars, cacheVars, cacheOpVars, pipeVars, ragVars, sessVars>>

AddEdgeCall ==
    /\ kgCalls < MaxCalls
    /\ kgRaised = "none"
    /\ \E s \in CallIds, t \in CallIds, ty \in CallEdgeTypes :
         /\ SetAgent(AddEdge(AgentGraph, s, t, ty, NoAttrs))
         /\ kgCall' = [op |-> "add_edge", source_id |-> s, target_id |-> t, type |-> ty]
    /\ kgCalls' = kgCalls + 1
    /\ UNCHANGED <<buildVars, cacheVars, cacheOpVars, pipeVars, ragVars, sessVars>>

ResetCall ==
    /\ kgCalls < MaxCalls
    /\ kgRaised = "none"
    /\ SetAgent(ResetGraph(AgentGraph))
    /\ kgCall' = [op |-> "reset"]
    /\ kgCalls' = kgCalls + 1
    /\ UNCHANGED <<buildVars, cacheVars, cacheOpVars, pipeVars, ragVars, sessVars>>

InitBuildIdle ==
    /\ kgPc = "idle"
    /\ kgResult = AltResult
    /\ kgIdx = 0
    /\ kgPending = <<>>
    /\ kgBuilds = 0
    /\ kgPrevIds = {}
    /\ kgRebuild = FALSE

InitGraphOps == InitAgent /\ InitBuildIdle /\ InitCacheUp /\ InitPipeFresh

NextGraphOps == AddNodeCall \/ AddEdgeCall \/ ResetCall

SpecGraphOps == InitGraphOps /\ [][NextGraphOps]_vars

(***************************************************************************)
(* analyze_document_pipeline_core, one stage step per action               *)
(***************************************************************************)
Begin(stage) == [stage |-> stage, what |-> "begin"]
End(stage) == [stage |-> stage, what |-> "end"]
Fail(stage) == [stage |-> stage, what |-> "fail"]

NextStageSkipCompliance(stage) ==
    CASE stage = "read"       -> "extract"
      [] stage = "extract"    -> "graph"
      [] stage = "compliance" -> "graph"
      [] stage = "graph"      -> "load"
      [] stage = "load"       -> "return"

NextStageLoadBeforeGraph(stage) ==
    CASE stage = "read"       -> "extract"
      [] stage = "extract"    -> "compliance"
      [] stage = "compliance" -> "load"
      [] stage = "load"       -> "graph"
      [] stage = "graph"      -> "return"

\* lines 106-121: where the orchestrator goes when a stage has returned
NextStage(stage) ==
    CASE stage = "read"       -> "extract"
      [] stage = "extract"    -> "compliance"
      [] stage = "compliance" -> "graph"
      [] stage = "graph"      -> "load"
      [] stage = "load"       -> "return"

graphIdle == <<graphVars, buildVars, ragVars, sessVars>>

\* the caller passes a file; lines 100-104 construct the four agents
PipeStart ==
    /\ pc = "idle"
    /\ \E f \in Files : file' = f
    /\ pc' = "read"
    /\ UNCHANGED <<documentContent, uuidCount, documentId, extractOutcome, entities,
                   analysisResult, ruleIdx, findings, assessLog, llmCalls, ragCtx, returned,
                   raisedToCaller, pipeExc, stageLog, ragAtStart, cacheAtStart, cacheVars, cacheOpVars, graphIdle>>

\* line 106: reader_agent.run
PipeRead ==
    /\ pc = "read"
    /\ LET out == ReaderRun(file)
       IN  IF out.raised # "none"
           THEN /\ pc' = "except"
                /\ stageLog' = stageLog \o <<Begin("read"), Fail("read")>>
                /\ pipeExc' = out.raised
                /\ UNCHANGED documentContent
           ELSE /\ pc' = NextStage("read")
                /\ stageLog' = stageLog \o <<Begin("read"), End("read")>>
                /\ UNCHANGED pipeExc
                /\ documentContent' = out.content
    /\ UNCHANGED <<file, uuidCount, documentId, extractOutcome, entities,
                   analysisResult, ruleIdx, findings, assessLog, llmCalls, ragCtx, returned,
                   raisedToCaller, ragAtStart, cacheAtStart, cacheVars, cacheOpVars, graphIdle>>

\* extractor lines 37-72: a fresh identifier, the cache lookup, then the model call is issued
PipeExtractBegin ==
    /\ pc = "extract"
    /\ LET id == NewDocumentId(uuidCount)
           key == FullAnalysisKey(id)
           x == GetCall(cache, cacheConn, key)
       IN  /\ documentId' = id
           /\ uuidCount' = uuidCount + 1
           /\ CacheNoted(x, "extract")
           /\ IF x.raised # "none"
              THEN /\ pc' = "except"
                   /\ pipeExc' = x.raised
                   /\ stageLog' = stageLog \o <<Begin("extract"), Fail("extract")>>
                   /\ UNCHANGED <<analysisResult, extractOutcome, llmCalls>>
              ELSE IF x.ok
              THEN /\ analysisResult' = cache[key].value
                   /\ extractOutcome' = "cached"
                   /\ pc' = NextStage("extract")
                   /\ stageLog' = stageLog \o <<Begin("extract"), End("extract")>>
                   /\ UNCHANGED <<llmCalls, pipeExc>>
              ELSE /\ pc' = "extract_llm"
                   /\ llmCalls' = llmCalls + 1
                   /\ stageLog' = Append(stageLog, Begin("extract"))
                   /\ UNCHANGED <<analysisResult, extractOutcome, pipeExc>>
    /\ UNCHANGED <<file, documentContent, entities, ruleIdx, findings, assessLog, ragCtx,
                   returned, raisedToCaller, ragAtStart, cacheAtStart, cacheVars, cacheCalls,
                   graphIdle>>

\* extractor lines 73-151: the model call ends, the result is assembled, cached and returned
ExtractReturn(bundles) ==
    /\ pc = "extract_llm"
    /\ \E kind \in LlmKinds, raw \in bundles :
         LET e == EntitiesAfterCall(kind, raw)
             r == MakeAnalysisResult(documentId, documentContent, e)
             x == SetCall(cache, cacheConn, FullAnalysisKey(documentId), r, CacheTtl)
         IN  /\ extractOutcome' = kind
             /\ entities' = e
             /\ analysisResult' = r
             /\ cache' = x.cache
             /\ CacheNoted(x, "extract")
             /\ IF x.raised # "none"
                THEN /\ pc' = "except"
                     /\ pipeExc' = x.raised
                     /\ stageLog' = Append(stageLog, Fail("extract"))
                ELSE /\ pc' = NextStage("extract")
                     /\ stageLog' = Append(stageLog, End("extract"))
                     /\ UNCHANGED pipeExc
    /\ UNCHANGED <<file, documentContent, uuidCount, documentId, ruleIdx, findings, assessLog,
                   llmCalls, ragCtx, returned, raisedToCaller, ragAtStart, cacheAtStart,
                   cacheConn, cacheCalls, graphIdle>>

PipeExtractReturn == ExtractReturn(PipeBundles)

\* compliance lines 135-156: the findings list starts empty
PipeComplianceBegin ==
    /\ pc = "compliance"
    /\ ruleIdx = 0
    /\ ruleIdx' = 1
    /\ findings' = <<>>
    /\ assessLog' = <<>>
    /\ stageLog' = Append(stageLog, Begin("compliance"))
    /\ UNCHANGED <<pc, file, documentContent, uuidCount, documentId, extractOutcome, entities,
                   analysisResult, llmCalls, ragCtx, returned, raisedToCaller, pipeExc, ragAtStart,
                   cacheAtStart, cacheVars, cacheOpVars, graphIdle>>

\* compliance lines 159-179: one rule is assessed by one model call, its finding appended
AssessRule(kinds, outs) ==
    /\ pc = "compliance"
    /\ ruleIdx \in 1..NumRules
    /\ \E kind \in kinds : \E out \in IF kind = "ok" THEN outs ELSE {NoAssessment} :
         LET rule == ComplianceRules[ruleIdx]
         IN  /\ findings' = AppendFinding(findings, Finding(rule, AssessRuleWithLlm(rule, kind, out)))
             /\ assessLog' = Append(assessLog, [kind |-> kind, out |-> out])
    /\ llmCalls' = llmCalls + 1
    /\ ruleIdx' = ruleIdx + 1
    /\ UNCHANGED <<pc, file, documentContent, uuidCount, documentId, extractOutcome, entities,
                   analysisResult, ragCtx, returned, raisedToCaller, pipeExc, stageLog, ragAtStart,
                   cacheAtStart, cacheVars, cacheOpVars, graphIdle>>

PipeAssessRule == AssessRule(LlmKinds, AssessOutputs)

\* compliance lines 181-183: the findings replace the result's list, the stage returns
PipeComplianceEnd ==
    /\ pc = "compliance"
    /\ ruleIdx = NumRules + 1
    /\ analysisResult' = SetFindings(analysisResult, findings)
    /\ ruleIdx' = 0
    /\ pc' = NextStage("compliance")
    /\ stageLog' = Append(stageLog, End("compliance"))
    /\ UNCHANGED <<file, documentContent, uuidCount, documentId, extractOutcome, entities,
                   findings, assessLog, llmCalls, ragCtx, returned, raisedToCaller, pipeExc, ragAtStart,
                   cacheAtStart, cacheVars, cacheOpVars, graphIdle>>

\* line 115: knowledge_graph_agent.run on the agent constructed for this run (no await inside)
PipeGraph ==
    /\ pc = "graph"
    /\ \E us \in SuffixChoices(Items(analysisResult)) :
         LET g == BuildGraph(EmptyGraph, analysisResult, us)
             r == [analysisResult EXCEPT !.knowledge_graph = KnowledgeGraph(g.nodes, g.edges)]
             x == SetCall(cache, cacheConn, AnalysisResultKey(r), r, CacheTtl)
         IN  IF g.raised # "none"
             THEN /\ pc' = "except"
                  /\ stageLog' = stageLog \o <<Begin("graph"), Fail("graph")>>
                  /\ pipeExc' = g.raised
                  /\ UNCHANGED <<analysisResult, cache, cacheLast, cacheLog>>
             ELSE /\ analysisResult' = r
                  /\ cache' = x.cache
                  /\ CacheNoted(x, "graph")
                  /\ IF x.raised # "none"
                     THEN /\ pc' = "except"
                          /\ stageLog' = stageLog \o <<Begin("graph"), Fail("graph")>>
                          /\ pipeExc' = x.raised
                     ELSE /\ pc' = NextStage("graph")
                          /\ stageLog' = stageLog \o <<Begin("graph"), End("graph")>>
                          /\ UNCHANGED pipeExc
    /\ UNCHANGED <<file, documentContent, uuidCount, documentId, extractOutcome, entities,
                   ruleIdx, findings, assessLog, llmCalls, ragCtx, returned, raisedToCaller,
                   ragAtStart, cacheAtStart, cacheConn, cacheCalls, graphIdle>>

\* line 118: rag_agent_instance.load_document_context
PipeLoad ==
    /\ pc = "load"
    /\ ragCtx' = LoadDocumentContext(ragCtx, analysisResult)
    /\ pc' = NextStage("load")
    /\ stageLog' = stageLog \o <<Begin("load"), End("load")>>
    /\ UNCHANGED <<file, documentContent, uuidCount, documentId, extractOutcome, entities,
                   analysisResult, ruleIdx, findings, assessLog, llmCalls, returned,
                   raisedToCaller, pipeExc, ragAtStart, cacheAtStart, cacheVars, cacheOpVars, graphIdle>>

\* line 121: return analysis_result
PipeReturn ==
    /\ pc = "return"
    /\ returned' = Returned(analysisResult)
    /\ pc' = "done"
    /\ UNCHANGED <<file, documentContent, uuidCount, documentId, extractOutcome, entities,
                   analysisResult, ruleIdx, findings, assessLog, llmCalls, ragCtx,
                   raisedToCaller, pipeExc, stageLog, ragAtStart, cacheAtStart, cacheVars, cacheOpVars, graphIdle>>

\* ValueError, TypeError and AttributeError are subclasses of Exception
IsException(e) == e \in {"ValueError", "TypeError", "AttributeError"}

\* lines 123-125: "except Exception": the exception is printed and None is returned
PipeExcept ==
    /\ pc = "except"
    /\ IF IsException(pipeExc)
       THEN /\ returned' = ReturnedNone
            /\ UNCHANGED raisedToCaller
       ELSE /\ raisedToCaller' = TRUE
            /\ UNCHANGED returned
    /\ pipeExc' = "none"
    /\ pc' = "done"
    /\ UNCHANGED <<file, documentContent, uuidCount, documentId, extractOutcome, entities,
                   analysisResult, ruleIdx, findings, assessLog, llmCalls, ragCtx,
                   stageLog, ragAtStart, cacheAtStart, cacheVars, cacheOpVars, graphIdle>>

\* the process before the run: nothing analysed yet, or one document analysed and loaded;
\* the cache connected or not
Init ==
    /\ InitAgent
    /\ InitCacheCalls
    /\ InitBuildIdle
    /\ InitRun
    /\ InitRagIdle
    /\ cacheConn \in BOOLEAN
    /\ \E prior \in BOOLEAN :
         /\ uuidCount = IF prior THEN 1 ELSE 0
         /\ ragCtx = IF prior THEN PriorResult ELSE NoResult
         /\ cache = IF prior THEN PriorCache(cacheConn) ELSE EmptyCache
    /\ ragAtStart = ragCtx
    /\ cacheAtStart = cache

Next ==
    \/ PipeStart
    \/ PipeRead
    \/ PipeExtractBegin
    \/ PipeExtractReturn
    \/ PipeComplianceBegin
    \/ PipeAssessRule
    \/ PipeComplianceEnd
    \/ PipeGraph
    \/ PipeLoad
    \/ PipeReturn
    \/ PipeExcept

Spec == Init /\ [][Next]_vars

(***************************************************************************)
(* InformationExtractionAgent.run called on a read document, the model     *)
(* returning any bundle of dated entries                                   *)
(***************************************************************************)
MaxDates == 2

Date0 == <<"2023-12-31">>

TypeExecutionDate == <<"E","x","e","c","u","t","i","o","n"," ","D","a","t","e">>
TypeRandomNote == <<"R","a","n","d","o","m"," ","N","o","t","e">>
TypePolicyDate == <<"P","O","L","I","C","Y"," ","D","A","T","E">>
TypeUpdate == <<"U","p","d","a","t","e">>

DateTypes ==
    {TypeEffectiveDate, TypeExecutionDate, TypeRandomNote, TypePolicyDate, TypeUpdate, <<>>}

DateItems == {[date_type |-> t, date_value |-> v] : t \in DateTypes, v \in {Date1, Date2}}

DateSeqs(k) == UNION {[1..n -> DateItems] : n \in 0..k}

DateBundles ==
    { [EmptyEntities EXCEPT !.document_effective_date = x, !.dates = ds] :
        x \in {None, Date0}, ds \in DateSeqs(MaxDates) }

ExtractDates == ExtractReturn(DateBundles)

InitExtract ==
    /\ InitAgent
    /\ InitCacheCalls
    /\ InitBuildIdle
    /\ InitRagIdle
    /\ InitRunAt("extract", File("ok", ContentA), ContentA)
    /\ cacheConn \in BOOLEAN
    /\ cache = EmptyCache
    /\ uuidCount = 0
    /\ ragCtx = NoResult
    /\ ragAtStart = ragCtx
    /\ cacheAtStart = cache

NextExtract == PipeExtractBegin \/ ExtractDates

SpecExtract == InitExtract /\ [][NextExtract]_vars

(***************************************************************************)
(* One RAGAgent instance: results are loaded into it and queries are run   *)
(* on it, in any order                                                     *)
(***************************************************************************)
MaxLoads == 2
MaxQueries == 2

Paragraph(text, index) == [text |-> text, index |-> index]

\* a lease: two paragraphs, a graph of three nodes and two edges
RagDocA ==
    LET content == [file_name |-> <<"a.txt">>, text_content |-> <<"text a">>,
                    paragraphs |-> << Paragraph(<<"A","c","m","e"," ","p","a","y","s"," ","R","e","n","t">>, 0), Paragraph(<<"r","e","n","t"," ","i","s"," ","d","u","e">>, 1) >>]
        r == MakeAnalysisResult(<<"docA">>, content,
                 [EmptyEntities EXCEPT !.parties = << [name |-> <<"A","c","m","e">>, role |-> "Lessor"] >>])
        doc == <<"Document:", "docA">>
        party == <<"Party:", "Acme">>
        money == <<"MonetaryValue:", "1500.0_USD">>
    IN  [r EXCEPT !.knowledge_graph = KnowledgeGraph(
            << Node(doc, "Document", <<"a",".","t","x","t">>, [file_name |-> <<"a",".","t","x","t">>]),
               Node(party, "Party", <<"A","c","m","e">>, [name |-> <<"A","c","m","e">>, role |-> <<"L","e","s","s","o","r">>]),
               Node(money, "MonetaryValue", <<"1","5","0","0",".","0"," ","U","S","D">>, [reason |-> <<"R","e","n","t">>]) >>,
            << Edge(doc, party, <<"H","A","S","_","P","A","R","T","Y">>, [role |-> <<"L","e","s","s","o","r">>]),
               Edge(doc, money, <<"H","A","S","_","M","O","N","E","T","A","R","Y","_","V","A","L","U","E">>, [reason |-> <<"R","e","n","t">>]) >>)]

\* another document: one paragraph, a graph of two nodes and one edge
RagDocB ==
    LET content == [file_name |-> <<"b.txt">>, text_content |-> <<"text b">>,
                    paragraphs |-> << Paragraph(<<"B","o","l","t"," ","l","e","a","s","e","s">>, 0) >>]
        r == MakeAnalysisResult(<<"docB">>, content,
                 [EmptyEntities EXCEPT !.parties = << [name |-> <<"B","o","l","t">>, role |-> "Lessee"] >>])
        doc == <<"Document:", "docB">>
        party == <<"Party:", "Bolt">>
    IN  [r EXCEPT !.knowledge_graph = KnowledgeGraph(
            << Node(doc, "Document", <<"b",".","t","x","t">>, [file_name |-> <<"b",".","t","x","t">>]),
               Node(party, "Party", <<"B","o","l","t">>, [name |-> <<"B","o","l","t">>, role |-> <<"L","e","s","s","e","e">>]) >>,
            << Edge(doc, party, <<"H","A","S","_","P","A","R","T","Y">>, [role |-> <<"L","e","s","s","e","e">>]) >>)]

\* a result the graph stage has not worked on: four paragraphs, knowledge_graph None
RagDocC ==
    LET content == [file_name |-> <<"c.txt">>, text_content |-> <<"text c">>,
                    paragraphs |-> << Paragraph(<<"t","a","x"," ","a">>, 0), Paragraph(<<"t","a","x"," ","b">>, 1),
                                      Paragraph(<<"T","a","x"," ","c">>, 2), Paragraph(<<"t","a","x"," ","d">>, 3) >>]
    IN  MakeAnalysisResult(<<"docC">>, content, EmptyEntities)

RagResults == {RagDocA, RagDocB, RagDocC}

Queries == { <<"r","e","n","t">>, <<"A","C","M","E">>, <<"b","o","l","t">>, <<"t","a","x">>, <<>> }

\* what the model may return for a query: an answer with lists of its own making
RagOutputs ==
    { RagResponse(<<"the answer">>, "High", << <<"m","a","d","e"," ","u","p">> >>, << <<"Party:", "Ghost">> >>),
      RagResponse(<<"I don't have enough information">>, "Medium", <<>>, <<>>) }

pipeRun == <<pc, file, documentContent, uuidCount, documentId, extractOutcome, entities,
             analysisResult, ruleIdx, findings, assessLog, llmCalls, returned,
             raisedToCaller, pipeExc, stageLog, ragAtStart, cacheAtStart>>

\* a caller loads a result (backend_service.py:118, main.py:109)
RagLoad ==
    /\ Len(ragLoads) < MaxLoads
    /\ \E r \in RagResults :
         /\ ragCtx' = LoadDocumentContext(ragCtx, r)
         /\ ragLoads' = Append(ragLoads, r)
    /\ UNCHANGED <<ragQueries, ragLast, ragContext, ragResponse, ragRaised,
                   pipeRun, graphVars, buildVars, cacheVars, cacheOpVars, sessVars>>

\* a caller runs a query (run_rag_query_core, backend_service.py:127-131)
RagQuery ==
    /\ ragQueries < MaxQueries
    /\ \E query \in Queries, kind \in LlmKinds :
       \E out \in IF kind = "ok" THEN RagOutputs ELSE {NoResponse} :
         LET x == RagRun(ragCtx, query, kind, out)
         IN  /\ ragLast' = [query |-> query, loads |-> Len(ragLoads), llm |-> x.llm,
                            out |-> IF x.llm = "ok" THEN out ELSE NoResponse]
             /\ ragContext' = x.context
             /\ ragResponse' = x.response
             /\ ragRaised' = x.raised
    /\ ragQueries' = ragQueries + 1
    /\ UNCHANGED <<ragLoads, ragCtx, pipeRun, graphVars, buildVars, cacheVars, cacheOpVars,
                   sessVars>>

InitRag ==
    /\ InitAgent
    /\ InitBuildIdle
    /\ InitCacheUp
    /\ InitPipeFresh

NextRag == RagLoad \/ RagQuery

SpecRag == InitRag /\ [][NextRag]_vars

(***************************************************************************)
(* Two browser sessions of one Streamlit process (app.py). The resources   *)
(* returned by initialize_app_resources are cached by st.cache_resource,   *)
(* once for the process: every session gets the same RAGAgent object.      *)
(***************************************************************************)
SessDocs == {RagDocA, RagDocB}

SessQueries == { <<"r","e","n","t">>, <<"b","o","l","t">> }

Returning(r) == [running |-> TRUE, result |-> r]

sessIdle == <<pipeRun, graphVars, buildVars, cacheVars, cacheOpVars, ragVars>>

\* app.py 69-76: the session's script run calls the pipeline with the process's RAGAgent;
\* the pipeline loads its result into it (backend_service.py 118) and returns it, or returns
\* None without loading (123-125)
SessAnalyse(s) ==
    /\ ~sessPending[s].running
    /\ \E r \in SessDocs \cup {NoResult} :
         /\ ragCtx' = IF Loaded(r) THEN LoadDocumentContext(ragCtx, r) ELSE ragCtx
         /\ sessPending' = [sessPending EXCEPT ![s] = Returning(r)]
    /\ UNCHANGED <<sessDoc, sessAsked, sessIdle>>

\* app.py 78-85: a result is stored in the session's state, None is reported
SessStore(s) ==
    /\ sessPending[s].running
    /\ sessDoc' = IF Loaded(sessPending[s].result)
                  THEN [sessDoc EXCEPT ![s] = sessPending[s].result] ELSE sessDoc
    /\ sessPending' = [sessPending EXCEPT ![s] = NotRunning]
    /\ UNCHANGED <<ragCtx, sessAsked, sessIdle>>

\* app.py 197-205: with a document in the session's state, the query is run on the process's
\* RAGAgent
SessQuery(s) ==
    /\ ~sessPending[s].running
    /\ Loaded(sessDoc[s])
    /\ \E query \in SessQueries :
         LET x == RagRun(ragCtx, query, "ok",
                         RagResponse(<<"the answer">>, "High", <<>>, <<>>))
         IN  sessAsked' = [asked |-> TRUE, session |-> s, query |-> query, doc |-> sessDoc[s],
                           ctx |-> x.context.context_text.analysis, response |-> x.response]
    /\ UNCHANGED <<ragCtx, sessDoc, sessPending, sessIdle>>

InitSessions ==
    /\ InitAgent
    /\ InitBuildIdle
    /\ InitCacheUp
    /\ InitPipeFresh

NextSessions == \E s \in Sessions : SessAnalyse(s) \/ SessStore(s) \/ SessQuery(s)

SpecSessions == InitSessions /\ [][NextSessions]_vars

(***************************************************************************)
(* ComplianceAnalyzerAgent.run called again and again on the result of an  *)
(* extraction (agents/compliance_analyzer.py 130-183)                      *)
(***************************************************************************)
MaxComplianceRuns == 2

CountOf(log, entry) == Len(SelectSeq(log, LAMBDA e : e = entry))

ComplianceRuns == CountOf(stageLog, Begin("compliance"))

ComplianceReturns == CountOf(stageLog, End("compliance"))

\* the caller passes the result the stage has returned to the stage once more
ComplianceAgain ==
    /\ pc = NextStage("compliance")
    /\ ComplianceRuns < MaxComplianceRuns
    /\ pc' = "compliance"
    /\ UNCHANGED <<file, documentContent, uuidCount, documentId, extractOutcome, entities,
                   analysisResult, ruleIdx, findings, assessLog, llmCalls, ragCtx, returned,
                   raisedToCaller, pipeExc, stageLog, ragAtStart, cacheAtStart, cacheVars,
                   cacheOpVars, graphIdle>>

\* the answers of the model in these runs
ComplianceRunAssess ==
    AssessRule({"ok", "error"},
               { Assessment("LLM-ID", TRUE, <<"compliant">>, <<>>, None),
                 Assessment("LLM-ID", FALSE, <<"not compliant">>, <<>>, <<"llm recommendation">>) })

\* an extracted result, no rule assessed yet; the model calls are counted from here
InitCompliance ==
    /\ InitAgent
    /\ InitCacheCalls
    /\ InitBuildIdle
    /\ InitRagIdle
    /\ pc = "compliance"
    /\ file = File("ok", ContentA)
    /\ documentContent = ContentA
    /\ uuidCount = 1
    /\ documentId = NewDocumentId(0)
    /\ extractOutcome = "ok"
    /\ entities \in PipeBundles
    /\ analysisResult = MakeAnalysisResult(documentId, documentContent, entities)
    /\ ruleIdx = 0
    /\ findings = <<>>
    /\ assessLog = <<>>
    /\ llmCalls = 0
    /\ returned = Pending
    /\ raisedToCaller = FALSE
    /\ pipeExc = "none"
    /\ stageLog = <<>>
    /\ cacheConn = TRUE
    /\ cache = EmptyCache
    /\ ragCtx = NoResult
    /\ ragAtStart = ragCtx
    /\ cacheAtStart = cache

NextCompliance ==
    \/ PipeComplianceBegin
    \/ ComplianceRunAssess
    \/ PipeComplianceEnd
    \/ ComplianceAgain

SpecCompliance == InitCompliance /\ [][NextCompliance]_vars

(***************************************************************************)
(* RedisCache called directly, before and after a pipeline run that uses   *)
(* the same cache object (utils/redis_cache.py, backend_service.py 25-30)  *)
(***************************************************************************)
MaxCacheCalls == 2

\* keys of another caller; the keys of a run carry an identifier drawn inside the run
CallKeys == { <<"k1">>, <<"k2">> }

callerIdle == pc \in {"idle", "done"} /\ cacheCalls < MaxCacheCalls

CacheCall(x) ==
    /\ cache' = x.cache
    /\ CacheNoted(x, "caller")
    /\ cacheCalls' = cacheCalls + 1
    /\ UNCHANGED <<cacheConn, pipeVars, graphVars, buildVars, ragVars, sessVars>>

CacheCallSet ==
    /\ callerIdle
    /\ \E key \in CallKeys : CacheCall(SetCall(cache, cacheConn, key, PriorExtracted, CacheTtl))

CacheCallGet ==
    /\ callerIdle
    /\ \E key \in CallKeys : CacheCall(GetCall(cache, cacheConn, key))

CacheCallDelete ==
    /\ callerIdle
    /\ \E key \in CallKeys : CacheCall(DeleteCall(cache, cacheConn, key))

\* the answers of the model in these runs: every rule assessed without failure, any bundle
CacheRunAssess == AssessRule({"ok"}, {Assessment("LLM-ID", TRUE, <<"compliant">>, <<>>, None)})

CacheRunExtract == ExtractReturn(PipeBundles)

NextCache ==
    \/ CacheCallSet
    \/ CacheCallGet
    \/ CacheCallDelete
    \/ PipeStart
    \/ PipeRead
    \/ PipeExtractBegin
    \/ CacheRunExtract
    \/ PipeComplianceBegin
    \/ CacheRunAssess
    \/ PipeComplianceEnd
    \/ PipeGraph
    \/ PipeLoad
    \/ PipeReturn
    \/ PipeExcept

SpecCache == Init /\ [][NextCache]_vars

(***************************************************************************)
(* Claims about the pipeline (specification Spec)                          *)
(***************************************************************************)
ReadSucceeded == documentContent # NoContent

\* C1: once the reader has returned content, the run returns an analysis result, whatever
\* the outcomes (success, validation failure, other exception) of the extraction call and
\* of each rule-assessment call: the run never ends as a failed analysis.
C1_ReadDocumentYieldsResult ==
    (pc = "done" /\ ReadSucceeded) => returned.status = "result"

ReaderFailed == file.kind \in {"missing", "unsupported", "read_error"} /\ pc # "read"

\* C2: when the reader fails (missing file, unsupported type, read error) the run ends by
\* returning no result, nothing is raised to the caller, the model is never called, the
\* cache is not written and the query context is what it was before the run.
C2_ReaderFailureAborts ==
    ReaderFailed =>
        /\ pc \in {"except", "done"}
        /\ pc = "done" => returned = ReturnedNone
        /\ raisedToCaller = FALSE
        /\ llmCalls = 0
        /\ cache = cacheAtStart
        /\ ragCtx = ragAtStart

C2_Witness ==
    /\ pc = "done"
    /\ file.kind = "unsupported"
    /\ returned = ReturnedNone
    /\ ragCtx = PriorResult
    /\ cacheConn
    /\ cache = PriorCache(TRUE)

StageOrder == <<"read", "extract", "compliance", "graph", "load">>

StageNo(stage) == CHOOSE i \in 1..Len(StageOrder) : StageOrder[i] = stage

\* event i of the log is allowed where it stands
WellPlaced(log, i) ==
    IF log[i].what = "begin"
    THEN IF i = 1 THEN log[i].stage = "read"
         ELSE /\ log[i - 1].what = "end"
              /\ StageNo(log[i].stage) = StageNo(log[i - 1].stage) + 1
    ELSE /\ i > 1
         /\ log[i - 1].what = "begin"
         /\ log[i - 1].stage = log[i].stage

\* C3: the stages of a run begin in the order read, extract, compliance, graph, load; a
\* stage begins only when the previous one has returned, so no two are in progress at
\* once; and the query context is loaded only after the graph stage has completed.
C3_StagesSequential ==
    /\ \A i \in 1..Len(stageLog) : WellPlaced(stageLog, i)
    /\ (ragCtx # ragAtStart \/ \E i \in 1..Len(stageLog) : stageLog[i].stage = "load")
         => \E i \in 1..Len(stageLog) : stageLog[i] = [stage |-> "graph", what |-> "end"]

C3_Witness ==
    /\ pc = "done"
    /\ Len(stageLog) = 2 * Len(StageOrder)
    /\ stageLog[10] = [stage |-> "load", what |-> "end"]
    /\ ragCtx = analysisResult
    /\ ragCtx # ragAtStart

RuleFailed(i) == assessLog[i].kind # "ok"

\* the finding of rule i as the rule and the model's own answer for it determine it
FindingFromAnswer(i) ==
    LET rule == ComplianceRules[i]
        a == assessLog[i].out
    IN  [ rule_id |-> rule.rule_id,
          rule_description |-> rule.description,
          is_compliant |-> a.is_compliant,
          finding_details |-> a.finding_details,
          relevant_text_snippets |-> a.relevant_text_snippets,
          recommendation |-> IF a.recommendation \in {None, <<>>}
                             THEN rule.recommendation_template ELSE a.recommendation,
          severity |-> rule.severity_level ]

ComplianceStageDone == pc \in {"graph", "load", "return", "done", "except"} /\ assessLog # <<>>

\* C4: with N rules and any subset of failing assessment calls the stage produces exactly
\* N findings, one per rule in rule order; a failed rule's finding is non-compliant, has an
\* error-derived detail and no snippets; a rule that did not fail has the finding its own
\* answer determines, whatever happened to the other rules.
C4_OneFindingPerRule ==
    /\ Len(findings) = Len(assessLog)
    /\ \A i \in 1..Len(findings) :
         /\ findings[i].rule_id = ComplianceRules[i].rule_id
         /\ RuleFailed(i) =>
              /\ findings[i].is_compliant = FALSE
              /\ findings[i].finding_details \in {ValidationDetails, ErrorDetails}
              /\ findings[i].relevant_text_snippets = <<>>
         /\ ~RuleFailed(i) => findings[i] = FindingFromAnswer(i)
    /\ ComplianceStageDone =>
         /\ Len(findings) = NumRules
         /\ analysisResult.compliance_findings = findings

C4_Witness ==
    /\ ComplianceStageDone
    /\ RuleFailed(2)
    /\ ~RuleFailed(1)
    /\ ~RuleFailed(3)
    /\ assessLog[4].kind = "validation_error"
    /\ analysisResult.compliance_findings[1].is_compliant
    /\ Len(analysisResult.compliance_findings) = NumRules

ExtractionFailed == extractOutcome \in {"validation_error", "error"}

\* C5: when the extraction model call fails, the bundle the stage goes on with has every
\* list empty and every optional scalar unset, and the analysis result has empty party,
\* date, monetary-value and defined-term lists, an empty clause mapping, no effective date
\* and no jurisdiction.
C5_FailedExtractionIsEmpty ==
    ExtractionFailed =>
        /\ entities.parties = <<>> /\ entities.dates = <<>>
        /\ entities.monetary_values = <<>> /\ entities.defined_terms = <<>>
        /\ entities.indemnification_clauses = <<>> /\ entities.force_majeure_clauses = <<>>
        /\ entities.governing_law_clauses = <<>> /\ entities.confidentiality_clauses = <<>>
        /\ entities.termination_clauses = <<>>
        /\ entities.document_type = None /\ entities.document_title = None
        /\ entities.document_effective_date = None /\ entities.jurisdiction = None
        /\ entities.analysis_summary = None
        /\ analysisResult.extracted_parties = <<>>
        /\ analysisResult.extracted_dates = <<>>
        /\ analysisResult.extracted_monetary_values = <<>>
        /\ analysisResult.extracted_defined_terms = <<>>
        /\ analysisResult.extracted_clauses_summary = <<>>
        /\ analysisResult.metadata.effective_date = None
        /\ analysisResult.metadata.jurisdiction = None

C5_Witness ==
    /\ extractOutcome = "validation_error"
    /\ pc = "done"
    /\ returned.status = "result"
    /\ returned.value.extracted_parties = <<>>

(***************************************************************************)
(* Claim about the effective date (specification SpecExtract)              *)
(***************************************************************************)
TypeMatches(d, k) ==
    d.date_type # <<>> /\ Contains(Lower(d.date_type), EffectiveDateKeywords[k])

MatchedKeywords(ds) ==
    {k \in 1..Len(EffectiveDateKeywords) : \E i \in 1..Len(ds) : TypeMatches(ds[i], k)}

Least(S) == CHOOSE x \in S : \A y \in S : x <= y

\* C6: with no explicit document_effective_date and a non-empty dates list, the metadata
\* effective date is the value of the first entry, in list order, whose lower-cased type
\* contains the highest-priority keyword matched by any entry; the first entry of the list
\* is used only when no entry's type contains any keyword.
C6_KeywordBeatsPosition ==
    (extractOutcome = "ok" /\ entities.document_effective_date = None /\ entities.dates # <<>>) =>
        LET ds == entities.dates
            ks == MatchedKeywords(ds)
        IN  IF ks = {}
            THEN analysisResult.metadata.effective_date = ds[1].date_value
            ELSE LET k == Least(ks)
                     i == Least({j \in 1..Len(ds) : TypeMatches(ds[j], k)})
                 IN  analysisResult.metadata.effective_date = ds[i].date_value

C6_Witness ==
    /\ extractOutcome = "ok"
    /\ entities.document_effective_date = None
    /\ entities.dates = << [date_type |-> TypeRandomNote, date_value |-> Date1],
                          [date_type |-> TypeExecutionDate, date_value |-> Date2] >>
    /\ analysisResult.metadata.effective_date = Date2

RuleIdsOf(fs) == [i \in 1..Len(fs) |-> fs[i].rule_id]

DeclaredRuleIds == [i \in 1..NumRules |-> ComplianceRules[i].rule_id]

\* C19: the findings are in rule declaration order: while the stage runs the ids of the
\* findings are the first ids of the rule list, and the returned result lists the ids of
\* all rules in the order of the rule list, whichever assessments failed
C19_FindingsInRuleOrder ==
    /\ RuleIdsOf(findings) = SubSeq(DeclaredRuleIds, 1, Len(findings))
    /\ returned.status = "result" =>
         RuleIdsOf(returned.value.compliance_findings) = DeclaredRuleIds

\* a result is returned after the second assessment failed on its schema and the third on
\* the model, the first and the last having succeeded
C19_Witness ==
    /\ returned.status = "result"
    /\ Len(assessLog) = NumRules
    /\ assessLog[1].kind = "ok"
    /\ assessLog[2].kind = "validation_error"
    /\ assessLog[3].kind = "error"
    /\ assessLog[4].kind = "ok"
    /\ RuleIdsOf(returned.value.compliance_findings)
         = <<"NDA-001", "LEASE-001", "GDPR-001", "TERMINATION-001">>

\* the rule's own id, description and severity, whatever the assessment carries
CarriesRuleFields(i) ==
    /\ findings[i].rule_id = ComplianceRules[i].rule_id
    /\ findings[i].rule_description = ComplianceRules[i].description
    /\ findings[i].severity = ComplianceRules[i].severity_level

AnswerHasNoRecommendation(i) == assessLog[i].out.recommendation \in {None, <<>>}

FailureRecommendations ==
    { <<"Internal system error during rule assessment. Check LLM output format.">>,
      <<"Internal system error during rule assessment.">> }

\* C20 as stated: every finding carries the rule's id, description and severity, and its
\* recommendation is the rule's template whenever the assessment produced no
\* recommendation, the assessments that failed included
C20_TemplateAlsoWhenFailed ==
    \A i \in 1..Len(findings) :
        /\ CarriesRuleFields(i)
        /\ RuleFailed(i) \/ AnswerHasNoRecommendation(i) =>
             findings[i].recommendation = ComplianceRules[i].recommendation_template

\* C20: every finding carries the rule's id, description and severity, never the model's;
\* its recommendation is the rule's template exactly when the model answered without a
\* recommendation, the model's recommendation when it gave one, and the fixed text of the
\* failure, not the template, when the assessment failed
C20_RuleFieldsAndFallback ==
    \A i \in 1..Len(findings) :
        /\ CarriesRuleFields(i)
        /\ findings[i].rule_id # assessLog[i].out.rule_id
        /\ ~RuleFailed(i) /\ AnswerHasNoRecommendation(i) =>
             findings[i].recommendation = ComplianceRules[i].recommendation_template
        /\ ~RuleFailed(i) /\ ~AnswerHasNoRecommendation(i) =>
             findings[i].recommendation = assessLog[i].out.recommendation
        /\ RuleFailed(i) =>
             /\ findings[i].recommendation \in FailureRecommendations
             /\ findings[i].recommendation # ComplianceRules[i].recommendation_template

\* findings for an answer without a recommendation, an answer with an empty one, an answer
\* with one, and a failed assessment
C20_Witness ==
    /\ Len(findings) = NumRules
    /\ assessLog[1].kind = "ok" /\ assessLog[1].out.recommendation = None
    /\ assessLog[2].kind = "ok" /\ assessLog[2].out.recommendation = <<>>
    /\ assessLog[3].kind = "ok" /\ ~AnswerHasNoRecommendation(3)
    /\ assessLog[4].kind = "error"
    /\ findings[1].recommendation = ComplianceRules[1].recommendation_template
    /\ findings[2].recommendation = ComplianceRules[2].recommendation_template

(***************************************************************************)
(* Claims about the knowledge graph                                        *)
(***************************************************************************)
CallMissesEndpoint ==
    /\ kgCalls' = kgCalls + 1
    /\ kgCall'.op = "add_edge"
    /\ (kgCall'.source_id \notin id_map \/ kgCall'.target_id \notin id_map)

\* C7: a call of _add_edge whose source id or target id was never added as a node
\* leaves the edge list and the node list unchanged and raises nothing.
C7_DanglingEdgeDropped ==
    [][ CallMissesEndpoint => (edges' = edges /\ nodes' = nodes /\ kgRaised' = "none") ]_vars

\* an edge exists, and the last call was an _add_edge from a known node to an unknown one
C7_Witness ==
    /\ kgCall.op = "add_edge"
    /\ kgCall.source_id \in id_map
    /\ kgCall.target_id \notin id_map
    /\ Len(edges) = 1

NoDangling(ns, es) ==
    \A i \in 1..Len(es) : es[i].source_id \in NodeIds(ns) /\ es[i].target_id \in NodeIds(ns)

\* C8: in every state during and after a graph build, both endpoint ids of every edge
\* of the edge list are ids of nodes of the node list (also in the graph stored on the result).
C8_NoDanglingEdge ==
    /\ NoDangling(nodes, edges)
    /\ NoDangling(kgResult.knowledge_graph.nodes, kgResult.knowledge_graph.edges)

\* a second build on the same agent instance is under way and has added edges
C8_Witness ==
    /\ kgPc = "running"
    /\ kgBuilds = 2
    /\ kgResult.knowledge_graph.present
    /\ Len(edges) >= 2

C9_State ==
    /\ \A i, j \in 1..Len(nodes) : nodes[i].id = nodes[j].id => i = j
    /\ id_map = NodeIds(nodes)
    /\ kgRaised # "ValueError"

C9_Step ==
    (kgCalls' = kgCalls + 1 /\ kgCall'.op = "add_node" /\ kgCall'.id \in NodeIds(nodes))
        => (nodes' = nodes /\ kgRet' = FirstWithId(nodes, kgCall'.id))

\* C9: node ids are pairwise distinct in every graph state, the ids of id_map are exactly
\* the ids of the node list (so the ValueError is unreachable), and _add_node with an id
\* already present leaves the node list unchanged and returns the node first added.
C9_NodeIdsUnique == []C9_State /\ [][C9_Step]_vars

\* _add_node was called with the id of an existing node and another type: the node
\* returned is the existing one, with its original type
C9_Witness ==
    /\ kgCall.op = "add_node"
    /\ Len(nodes) = 1
    /\ kgRet = nodes[1]
    /\ kgRet.id = kgCall.id
    /\ kgRet.type # kgCall.type

\* C10: a second build from the same AnalysisResult ends with the same set of
\* non-clause node ids as the first one (in the agent and in the graph stored on the result).
C10_SameNonClauseIds ==
    (kgRebuild /\ kgPc \in {"built", "failed"}) =>
        /\ NonClauseIds(nodes) = kgPrevIds
        /\ kgPc = "built" => NonClauseIds(kgResult.knowledge_graph.nodes) = kgPrevIds

\* the rebuild completed, on a result with several non-clause entities and a clause
C10_Witness ==
    /\ kgRebuild
    /\ kgPc = "built"
    /\ Cardinality(kgPrevIds) >= 3
    /\ \E id \in NodeIds(nodes) : IsClauseId(id)

JustReset == kgPc = "running" /\ kgIdx = 1 /\ kgPending = <<>>

\* the graph a new agent instance builds from r with clause suffixes us
FreshBuild(r, us) == RunItems(EmptyGraph, r, Items(r), 1, us)

\* C11: every invocation of the graph stage starts from an empty node list, edge list and
\* id map, and when it has returned, the agent's graph and the result's knowledge_graph are
\* exactly what an agent that never built anything builds from that result: nothing of an
\* earlier build (same or other document) is left, and old and new graphs are not merged.
C11_RebuiltFromScratch ==
    /\ JustReset => (nodes = <<>> /\ edges = <<>> /\ id_map = {})
    /\ kgPc = "built" =>
         /\ kgResult.knowledge_graph = KnowledgeGraph(nodes, edges)
         /\ \E us \in SuffixChoices(Items(kgResult)) :
              /\ nodes = FreshBuild(kgResult, us).nodes
              /\ edges = FreshBuild(kgResult, us).edges

\* a second build, for another document, completed after a first one that left nodes
C11_Witness ==
    /\ kgPc = "built"
    /\ kgBuilds = 2
    /\ ~kgRebuild
    /\ Cardinality(kgPrevIds) >= 2
    /\ kgPrevIds \cap NodeIds(nodes) = {}
    /\ Len(nodes) >= 2
    /\ Len(edges) >= 1

\* the result holds one monetary value and nothing else the graph agent visits
OnlyOneMonetaryValue(r) ==
    /\ r.metadata.effective_date = None
    /\ ~Truthy(r.metadata.jurisdiction)
    /\ r.extracted_parties = <<>>
    /\ r.extracted_dates = <<>>
    /\ Len(r.extracted_monetary_values) = 1
    /\ r.extracted_defined_terms = <<>>
    /\ ClauseItems(r.extracted_clauses_summary) = <<>>

\* C18: the graph built for a result that holds one monetary value (a, c, r) and nothing
\* else is two nodes, a Document and a MonetaryValue whose id contains a and c, and one
\* edge from the first to the second, of type HAS_MONETARY_VALUE with attribute reason = r
C18_LoneMonetaryValueGraph ==
    kgPc = "built" /\ OnlyOneMonetaryValue(kgResult) =>
        LET g == kgResult.knowledge_graph
            mv == kgResult.extracted_monetary_values[1]
        IN  /\ g.present
            /\ Len(g.nodes) = 2
            /\ \E d, m \in 1..2 :
                 /\ g.nodes[d].type = "Document"
                 /\ g.nodes[m].type = "MonetaryValue"
                 /\ Contains(g.nodes[m].id, <<ToString(mv.amount)>>)
                 /\ Contains(g.nodes[m].id, mv.currency)
                 /\ g.edges = << Edge(g.nodes[d].id, g.nodes[m].id, "HAS_MONETARY_VALUE",
                                      [reason |-> mv.reason]) >>

\* the agent has built the graph of a document whose only entity is 20 EUR, a deposit
C18_Witness ==
    /\ kgPc = "built"
    /\ OnlyOneMonetaryValue(kgResult)
    /\ kgResult.extracted_monetary_values[1].reason = "Deposit"
    /\ Len(nodes) = 2
    /\ Len(edges) = 1

BuildEnded == kgPc \in {"built", "failed"}

ClauseRecords(r) == ClauseItems(r.extracted_clauses_summary)

ClauseNodes(ns) == SelectSeq(ns, LAMBDA n : n.type = "Clause")

EdgesBetween(es, source_id, target_id) ==
    SelectSeq(es, LAMBDA e : e.source_id = source_id /\ e.target_id = target_id)

\* C21: a result with k clause records in all yields exactly k Clause nodes, their ids
\* pairwise distinct, each with one edge of its own from the Document node
C21_ClausesNeverDeduplicated ==
    BuildEnded =>
        LET cs == ClauseNodes(nodes)
        IN  /\ Len(cs) = Len(ClauseRecords(kgResult))
            /\ \A i, j \in 1..Len(cs) : cs[i].id = cs[j].id => i = j
            /\ \A i \in 1..Len(cs) : Len(EdgesBetween(edges, DocId(kgResult), cs[i].id)) = 1

\* the same statement for the builds that returned a graph only
C21_ReturnedBuilds == kgPc = "built" => C21_ClausesNeverDeduplicated

NodesWithId(ns, id) == SelectSeq(ns, LAMBDA n : n.id = id)

EdgesOfType(es, source_id, target_id, type) ==
    SelectSeq(es, LAMBDA e : e.source_id = source_id /\ e.target_id = target_id /\ e.type = type)

\* C22: two date entries with the same value and different type labels get two distinct
\* Date nodes, one per type, each with its own REFERENCES_DATE edge from the Document node
C22_DatesDistinctByType ==
    kgPc = "built" =>
        LET ds == kgResult.extracted_dates
            g == kgResult.knowledge_graph
        IN  \A i, j \in 1..Len(ds) :
                (ds[i].date_value = ds[j].date_value /\ ds[i].date_type # ds[j].date_type) =>
                    /\ DateClauseId(ds[i]) # DateClauseId(ds[j])
                    /\ Len(NodesWithId(g.nodes, DateClauseId(ds[i]))) = 1
                    /\ Len(EdgesOfType(g.edges, DocId(kgResult), DateClauseId(ds[i]),
                                       "REFERENCES_DATE")) = 1

CarriesDuration(clause) == clause.duration_years # NoDuration

DurationEdgesFrom(es, id) == SelectSeq(es, LAMBDA e : e.source_id = id /\ e.type = "HAS_DURATION")

\* C23: in a built graph the Clause nodes with a HAS_DURATION edge are exactly those of the
\* confidentiality records that carry a duration_years value; the edge goes to a Duration
\* node of the graph; no other node has such an edge
C23_DurationForConfidentialityOnly ==
    kgPc = "built" =>
        LET g == kgResult.knowledge_graph
        IN  /\ \A i \in 1..Len(g.nodes) :
                 LET n == g.nodes[i]
                     with == n.type = "Clause" /\ n.name = <<"Confidentiality">>
                             /\ CarriesDuration(n.attributes.clause)
                 IN  IF with
                     THEN /\ Len(DurationEdgesFrom(g.edges, n.id)) >= 1
                          /\ \A k \in 1..Len(g.edges) :
                               (g.edges[k].source_id = n.id /\ g.edges[k].type = "HAS_DURATION") =>
                                   \E d \in 1..Len(g.nodes) :
                                       /\ g.nodes[d].type = "Duration"
                                       /\ g.nodes[d].id = g.edges[k].target_id
                     ELSE DurationEdgesFrom(g.edges, n.id) = <<>>

One(b) == IF b THEN 1 ELSE 0

\* the edge count of the statement: one per entity, one more per confidentiality clause
\* that carries a duration value
EdgesPerEntity(r) ==
    One(r.metadata.effective_date # None)
    + One(Truthy(r.metadata.jurisdiction))
    + Len(r.extracted_parties)
    + Len(r.extracted_dates)
    + Len(r.extracted_monetary_values)
    + Len(r.extracted_defined_terms)
    + Len(ClauseRecords(r))
    + Len(SelectSeq(ClauseRecords(r),
                    LAMBDA c : c.clause_type = "ConfidentialityClause" /\ CarriesDuration(c.v)))

\* C29: no edge is dropped during a build, and the graph a build returns has one edge per
\* entity of the result plus one per confidentiality clause with a duration value, also when
\* several entities share a node id
C29_EdgeCount ==
    /\ kgPc = "running" /\ kgCall.op = "edge" =>
         (kgCall.source_id \in id_map /\ kgCall.target_id \in id_map)
    /\ kgPc = "built" => Len(kgResult.knowledge_graph.edges) = EdgesPerEntity(kgResult)

\* the statement without its last term's zero durations
C29_EdgeCountTruthyDurations ==
    kgPc = "built" =>
        Len(kgResult.knowledge_graph.edges)
            = EdgesPerEntity(kgResult)
              - Len(SelectSeq(ClauseRecords(kgResult),
                              LAMBDA c : c.clause_type = "ConfidentialityClause"
                                         /\ c.v.duration_years = 0))

(***************************************************************************)
(* Claims about the query stage (specification SpecRag)                    *)
(***************************************************************************)
Queried == ragQueries > 0

\* the result that was loaded last when the last query was made
LoadedAtQuery == ragLoads[ragLast.loads]

\* C12: a query made while no result is loaded returns the answer "Please load a document
\* first." with confidence "Low" and empty snippet and source-node lists, and the model is
\* not called for it.
C12_NoContextQuery ==
    (Queried /\ ragLast.loads = 0) =>
        /\ ragResponse.answer = PleaseLoad
        /\ ragResponse.confidence = "Low"
        /\ ragResponse.relevant_snippets = <<>>
        /\ ragResponse.source_nodes = <<>>
        /\ ragLast.llm = "not_called"
        /\ ragRaised = "none"

C12_Witness ==
    /\ ragQueries = 1
    /\ ragLoads = <<>>
    /\ ragLast.query = <<"r","e","n","t">>
    /\ ragResponse.answer = PleaseLoad

\* the texts of the first MaxSnippets paragraphs containing the lower-cased query (the
\* paragraphs here are short enough to be their own snippets)
MatchingParagraphs(r, query) ==
    LET m == SelectSeq(r.paragraphs, LAMBDA para : Contains(Lower(para.text), Lower(query)))
    IN  [i \in 1..(IF Len(m) < MaxSnippets THEN Len(m) ELSE MaxSnippets) |-> m[i].text]

\* the ids of the graph's nodes whose name or an attribute contains the lower-cased query
MatchingNodeIds(r, query) ==
    LET ns == IF r.knowledge_graph.present THEN r.knowledge_graph.nodes ELSE <<>>
        m == SelectSeq(ns, LAMBDA n :
                 \/ Contains(Lower(n.name), Lower(query))
                 \/ \E k \in DOMAIN n.attributes : Contains(Lower(n.attributes[k]), Lower(query)))
    IN  [i \in 1..Len(m) |-> m[i].id]

\* C13: when the model returns a valid response, the returned relevant_snippets and
\* source_nodes are the locally computed keyword-match lists, whatever the model proposed
\* (answer and confidence are the model's); so every returned source node id is the id of
\* a node of the loaded result's knowledge graph.
C13_ListsOverwritten ==
    (Queried /\ ragLast.llm = "ok") =>
        /\ ragResponse.relevant_snippets = MatchingParagraphs(LoadedAtQuery, ragLast.query)
        /\ ragResponse.source_nodes = MatchingNodeIds(LoadedAtQuery, ragLast.query)
        /\ ragResponse.answer = ragLast.out.answer
        /\ ragResponse.confidence = ragLast.out.confidence
        /\ \A i \in 1..Len(ragResponse.source_nodes) :
             ragResponse.source_nodes[i] \in NodeIds(LoadedAtQuery.knowledge_graph.nodes)

C13_Witness ==
    /\ ragLast.llm = "ok"
    /\ ragLast.query = <<"A","C","M","E">>
    /\ ragLast.out.source_nodes = << <<"Party:", "Ghost">> >>
    /\ ragResponse.source_nodes = << <<"Party:", "Acme">> >>
    /\ ragResponse.relevant_snippets = << <<"A","c","m","e"," ","p","a","y","s"," ","R","e","n","t">> >>

FromParagraphsOf(r, snippet) == \E i \in 1..Len(r.paragraphs) : Contains(r.paragraphs[i].text, snippet)

InSeq(x, seq) == \E i \in 1..Len(seq) : seq[i] = x

\* C14: after any sequence of loads and queries a query is answered from the most recently
\* loaded result only: the agent holds the last loaded result, and the context assembled
\* for a query has that result as its structured data, snippets from its paragraphs, nodes,
\* node ids and edges from its graph, and nothing from a result loaded earlier.
C14_LatestContextOnly ==
    /\ ragLoads # <<>> => ragCtx = ragLoads[Len(ragLoads)]
    /\ (Queried /\ ragLast.loads > 0) =>
         LET cur == LoadedAtQuery
             text == ragContext.context_text
         IN  /\ text.analysis = cur
             /\ \A i \in 1..Len(ragContext.relevant_snippets) :
                  FromParagraphsOf(cur, ragContext.relevant_snippets[i])
             /\ text.snippets = ragContext.relevant_snippets
             /\ \A i \in 1..Len(text.kg_nodes) : InSeq(text.kg_nodes[i], cur.knowledge_graph.nodes)
             /\ \A i \in 1..Len(text.kg_edges) : InSeq(text.kg_edges[i], cur.knowledge_graph.edges)
             /\ \A i \in 1..Len(ragContext.source_nodes) :
                  ragContext.source_nodes[i] \in NodeIds(cur.knowledge_graph.nodes)
             /\ \A j \in 1..(ragLast.loads - 1) :
                  ragLoads[j] # cur =>
                      /\ \A i \in 1..Len(ragContext.relevant_snippets) :
                           ~FromParagraphsOf(ragLoads[j], ragContext.relevant_snippets[i])
                      /\ \A i \in 1..Len(ragContext.source_nodes) :
                           ragContext.source_nodes[i] \notin NodeIds(ragLoads[j].knowledge_graph.nodes)

\* the second loaded document is queried with a text that matches everything
C14_Witness ==
    /\ ragLoads = <<RagDocA, RagDocB>>
    /\ ragLast.loads = 2
    /\ ragLast.query = <<>>
    /\ ragContext.relevant_snippets = << <<"B","o","l","t"," ","l","e","a","s","e","s">> >>
    /\ Len(ragContext.source_nodes) = 2
    /\ Len(ragContext.context_text.kg_edges) = 1

\* C17: a query with a loaded context raises nothing to the caller; when the model call
\* fails (validation error or any other exception) the response has confidence "Low", an
\* answer carrying the error text, and empty snippet and source-node lists.
C17_QueryErrorsAbsorbed ==
    (Queried /\ ragLast.loads > 0) =>
        /\ ragRaised = "none"
        /\ ragLast.llm \in {"validation_error", "error"} =>
             /\ ragResponse.confidence = "Low"
             /\ ragLast.llm = "validation_error" => ragResponse.answer = SchemaMismatch
             /\ ragLast.llm = "error" => ragResponse.answer = ProcessingError
             /\ ragResponse.relevant_snippets = <<>>
             /\ ragResponse.source_nodes = <<>>

\* the model call failed on a query whose context had matching snippets and nodes
C17_Witness ==
    /\ ragLast.llm = "error"
    /\ ragLast.loads > 0
    /\ ragResponse.answer = ProcessingError
    /\ ragContext.source_nodes # <<>>
    /\ ragContext.relevant_snippets # <<>>
    /\ ragResponse.source_nodes = <<>>

(***************************************************************************)
(* The extractor's cache lookup (agents/information_extractor.py 37-48)    *)
(***************************************************************************)
ExtractionEntered == \E i \in 1..Len(stageLog) : stageLog[i] = Begin("extract")

\* the lookup the extractor has just made, before the model's answer is back
LookupMissed ==
    cacheLast = [op |-> "get", key |-> FullAnalysisKey(documentId), ok |-> FALSE,
                 raised |-> "none"]

\* C15: the document id is generated before the cache is looked up, so in every invocation
\* of the extraction the key is one the cache has never held: the lookup misses, the cached
\* path is never taken and the model is invoked
C15_LookupAlwaysMisses ==
    /\ extractOutcome # "cached"
    /\ ExtractionEntered =>
         /\ FullAnalysisKey(documentId) \notin DOMAIN cacheAtStart
         /\ llmCalls >= 1
         /\ pc = "extract_llm" \/ extractOutcome \in LlmKinds
    /\ pc = "extract_llm" => LookupMissed

\* a connected cache that holds an earlier run's analysis is looked up and misses
C15_Witness ==
    /\ cacheConn
    /\ cacheAtStart = PriorCache(TRUE)
    /\ pc = "extract_llm"
    /\ LookupMissed
    /\ llmCalls = 1

(***************************************************************************)
(* The cache without a connection (specification SpecCache)                *)
(***************************************************************************)
\* the result of the stages as a function of the file, of the model's answers and of the
\* drawn identifiers alone: neither the cache nor its connection occurs in it
ResultOfInputs(us) ==
    LET extracted == MakeAnalysisResult(documentId, documentContent, entities)
        assessed ==
            [ extracted EXCEPT !.compliance_findings =
                [i \in 1..NumRules |->
                    Finding(ComplianceRules[i],
                            AssessRuleWithLlm(ComplianceRules[i], assessLog[i].kind,
                                              assessLog[i].out))] ]
        g == BuildGraph(EmptyGraph, assessed, us)
    IN  [raised |-> g.raised,
         value |-> [assessed EXCEPT !.knowledge_graph = KnowledgeGraph(g.nodes, g.edges)]]

\* the stages themselves can complete: the file is readable and the graph build raises nothing
StagesComplete ==
    /\ file.kind = "ok"
    /\ Len(assessLog) = NumRules
    /\ \E us \in SuffixChoices(Items(analysisResult)) : ResultOfInputs(us).raised = "none"

CacheCalled == cacheLast.op # "none"

\* C16: without a connection every get returns absent, every set and delete returns failure,
\* none raises and the store is left as it was; a pipeline run then completes whenever its
\* stages can, with the result its inputs determine, which is the result of a run with a
\* working cache on the same inputs
C16_NoConnectionDegrades ==
    /\ ~cacheConn /\ CacheCalled =>
         /\ ~cacheLast.ok
         /\ cacheLast.raised = "none"
         /\ cache = cacheAtStart
    /\ pc = "done" =>
         /\ ~raisedToCaller
         /\ returned.status = "result" <=> StagesComplete
         /\ returned.status = "result" =>
              \E us \in SuffixChoices(Items(analysisResult)) :
                  returned.value = ResultOfInputs(us).value

C16_DeleteFails == ~cacheConn /\ cacheLast.op = "delete" /\ cacheCalls >= 1

\* a run without a connection has returned a result and the cache has then been asked to
\* delete a key
C16_Witness ==
    /\ C16_DeleteFails
    /\ pc = "done"
    /\ returned.status = "result"
    /\ returned.value.extracted_monetary_values # <<>>

(***************************************************************************)
(* The extractor's cache write (agents/information_extractor.py 132-151)   *)
(***************************************************************************)
CallsBy(by, op) == SelectSeq(cacheLog, LAMBDA c : c.by = by /\ c.op = op)

ExtractionEnded == \E i \in 1..Len(stageLog) : stageLog[i] = End("extract")

\* C24: the extraction stage issues no cache write before the model call has completed and
\* exactly one by the time it has returned, whether the model answered or the stage fell
\* back to the empty bundle; the write is under the key made of the returned result's
\* identifier and, with a connected cache, stores that result with a TTL of 3600 seconds
C24_OneWriteBeforeReturn ==
    /\ ~ExtractionEnded => CallsBy("extract", "set") = <<>>
    /\ ExtractionEnded =>
         LET key == <<"full_analysis_cache:">> \o analysisResult.document_id
         IN  /\ llmCalls >= 1
             /\ extractOutcome \in LlmKinds
             /\ Len(CallsBy("extract", "set")) = 1
             /\ CallsBy("extract", "set")[1].key = key
             /\ CallsBy("extract", "set")[1].ok = cacheConn
             /\ cacheConn =>
                  /\ key \in DOMAIN cache
                  /\ cache[key].ex = 3600
                  /\ cache[key].value = MakeAnalysisResult(documentId, documentContent, entities)

\* the stage has just returned the empty-bundle result of a failed model call, and a
\* connected cache that already held an earlier analysis has been written once
C24_Witness ==
    /\ cacheConn
    /\ cacheAtStart = PriorCache(TRUE)
    /\ pc = "compliance"
    /\ ruleIdx = 0
    /\ extractOutcome = "validation_error"
    /\ Len(CallsBy("extract", "set")) = 1
    /\ cacheLast.op = "set"
    /\ FullAnalysisKey(documentId) \in DOMAIN cache

(***************************************************************************)
(* Repeated compliance runs (specification SpecCompliance)                 *)
(***************************************************************************)
ComplianceRunning == pc = "compliance" /\ ruleIdx > 0

\* the findings the last run's own assessments determine
FindingsOfRun ==
    [i \in 1..Len(assessLog) |->
        Finding(ComplianceRules[i],
                AssessRuleWithLlm(ComplianceRules[i], assessLog[i].kind, assessLog[i].out))]

\* C25: every run of the compliance stage calls the model once per rule, failed calls
\* included, and replaces the result's findings: when a run has returned, the model has
\* been called N times per run and the result holds the N findings of that run alone
C25_OneCallPerRuleAndReplace ==
    /\ llmCalls = NumRules * ComplianceReturns + (IF ComplianceRunning THEN ruleIdx - 1 ELSE 0)
    /\ Len(analysisResult.compliance_findings) = (IF ComplianceReturns = 0 THEN 0 ELSE NumRules)
    /\ pc = NextStage("compliance") =>
         /\ Len(assessLog) = NumRules
         /\ analysisResult.compliance_findings = FindingsOfRun

\* a second run has returned, its second assessment failed; the first run's verdicts for
\* the first rule differ from the second run's
C25_Witness ==
    /\ pc = NextStage("compliance")
    /\ ComplianceReturns = 2
    /\ llmCalls = 2 * NumRules
    /\ assessLog[2].kind = "error"
    /\ Len(analysisResult.compliance_findings) = NumRules

(***************************************************************************)
(* The result object across the stages (specification Spec)                *)
(***************************************************************************)
StageEnded(stage) == \E i \in 1..Len(stageLog) : stageLog[i] = End(stage)

HasDocumentNode(r) ==
    \E i \in 1..Len(r.knowledge_graph.nodes) :
        /\ r.knowledge_graph.nodes[i].type = "Document"
        /\ r.knowledge_graph.nodes[i].id = DocId(r)

\* C26: once the extraction has returned a result, its findings list is empty until the
\* compliance stage has returned and its knowledge graph is absent until the graph stage
\* has returned; the result loaded into the query stage has N findings and a graph with
\* the Document node
C26_EnrichedStageByStage ==
    /\ ~StageEnded("extract") => analysisResult = NoResult
    /\ StageEnded("extract") /\ ~StageEnded("compliance") =>
         analysisResult.compliance_findings = <<>>
    /\ StageEnded("extract") /\ ~StageEnded("graph") =>
         analysisResult.knowledge_graph = NoGraph
    /\ StageEnded("load") =>
         /\ ragCtx = analysisResult
         /\ Len(ragCtx.compliance_findings) = NumRules
         /\ ragCtx.knowledge_graph.present
         /\ HasDocumentNode(ragCtx)

\* the compliance stage is assessing its third rule: two findings exist, the result still
\* has none and no graph
C26_MidRun ==
    /\ pc = "compliance"
    /\ Len(findings) = 2
    /\ analysisResult.compliance_findings = <<>>
    /\ analysisResult.knowledge_graph = NoGraph
    /\ analysisResult.extracted_monetary_values # <<>>

\* the run has loaded its result, replacing an earlier document's
C26_Witness ==
    /\ StageEnded("load")
    /\ ragAtStart = PriorResult
    /\ ragCtx # ragAtStart
    /\ Len(ragCtx.knowledge_graph.nodes) >= 3

\* the result with its two enrichments blanked
Unenriched(r) == [r EXCEPT !.compliance_findings = <<>>, !.knowledge_graph = NoGraph]

C27_State ==
    StageEnded("extract") =>
        /\ Unenriched(analysisResult) = MakeAnalysisResult(documentId, documentContent, entities)
        /\ analysisResult.knowledge_graph.present =>
             \E i \in 1..Len(analysisResult.knowledge_graph.nodes) :
                 /\ analysisResult.knowledge_graph.nodes[i].type = "Document"
                 /\ analysisResult.knowledge_graph.nodes[i].id
                        = <<"Document:">> \o analysisResult.document_id
        /\ analysisResult.knowledge_graph.present =>
             \A i \in 1..Len(analysisResult.knowledge_graph.nodes) :
                 analysisResult.knowledge_graph.nodes[i].type = "Document" =>
                     analysisResult.knowledge_graph.nodes[i].id
                        = <<"Document:">> \o analysisResult.document_id

C27_Step ==
    /\ pc = "compliance" =>
         analysisResult' = [analysisResult EXCEPT
                               !.compliance_findings = analysisResult'.compliance_findings]
    /\ pc = "graph" =>
         analysisResult' = [analysisResult EXCEPT
                               !.knowledge_graph = analysisResult'.knowledge_graph]

\* C27: the compliance stage changes only the result's compliance_findings and the graph
\* stage only its knowledge_graph; identifier, file name, metadata, entity lists, clause
\* mapping, summary, full text and paragraphs stay those of the extraction, and the
\* Document node's id is made of that identifier
C27_StagesChangeOnlyTheirField == []C27_State /\ [][C27_Step]_vars

\* both stages have run on a result with entities: findings and a graph are on it
C27_Witness ==
    /\ pc = "load"
    /\ Len(analysisResult.compliance_findings) = NumRules
    /\ analysisResult.knowledge_graph.present
    /\ Len(analysisResult.knowledge_graph.nodes) >= 3
    /\ analysisResult.extracted_parties # <<>>
    /\ Unenriched(analysisResult) = MakeAnalysisResult(documentId, documentContent, entities)

(***************************************************************************)
(* Interleaved sessions (specification SpecSessions)                       *)
(***************************************************************************)
\* C28: every query of a session is answered from the document that session most recently
\* analysed: the document in the session's state and the context of the RAGAgent used for
\* the query are the same document
C28_QueryFromOwnDocument ==
    sessAsked.asked =>
        /\ sessAsked.ctx = sessAsked.doc
        /\ sessAsked.doc = sessDoc[sessAsked.session]

(***************************************************************************)
(* The two cache keys (agents/information_extractor.py 38-48 and 148,      *)
(* agents/knowledge_graph_agent.py 136-137)                                *)
(***************************************************************************)
UnderPrefix(key, prefix) == key # None /\ Len(key) >= 1 /\ key[1] = prefix

\* C30: the key under full_analysis_cache: is read and written by the extraction stage alone
\* and the key under analysis_result: is written by the graph stage and read by no stage, so
\* every entry under an extraction key holds a result without findings and without a graph,
\* and no lookup returns the graph stage's enriched result
C30_KeysKeptApart ==
    /\ \A i \in 1..Len(cacheLog) :
         LET c == cacheLog[i]
         IN  /\ UnderPrefix(c.key, "full_analysis_cache:") => c.by = "extract"
             /\ UnderPrefix(c.key, "analysis_result:") => (c.by = "graph" /\ c.op = "set")
             /\ c.by = "extract" => UnderPrefix(c.key, "full_analysis_cache:")
             /\ c.by = "graph" => UnderPrefix(c.key, "analysis_result:")
             /\ c.op = "get" => c.by = "extract"
    /\ \A key \in DOMAIN cache :
         UnderPrefix(key, "full_analysis_cache:") =>
             /\ cache[key].value.compliance_findings = <<>>
             /\ cache[key].value.knowledge_graph = NoGraph
    /\ extractOutcome # "cached"

\* a run has ended on a connected cache that held an earlier run's two entries: the cache
\* holds this run's extraction entry and its enriched entry, which has findings and a graph
C30_Witness ==
    /\ cacheConn
    /\ cacheAtStart = PriorCache(TRUE)
    /\ pc = "done"
    /\ FullAnalysisKey(documentId) \in DOMAIN cache
    /\ AnalysisResultKey(analysisResult) \in DOMAIN cache
    /\ cache[AnalysisResultKey(analysisResult)].value.compliance_findings # <<>>
    /\ cache[AnalysisResultKey(analysisResult)].value.knowledge_graph # NoGraph
    /\ Len(CallsBy("graph", "set")) = 1
    /\ Len(CallsBy("extract", "get")) = 1

====
